---- MODULE Spec2Model ----
(***************************************************************************)
(* easyL: the share vault (EasyLVault) and the bonding-curve market        *)
(* (BondingCurve) of contracts/src, as state machines over the funding     *)
(* asset's ledger.                                                         *)
(*                                                                         *)
(* Solidity's uint256 does not fit TLC's 32-bit integers (BASE_PRICE *     *)
(* SCALE alone is 10^10), so a uint256 is a little-endian sequence of      *)
(* base-10^4 limbs without leading zero limbs; zero is <<>>.  A reverted   *)
(* checked operation yields PANIC, which every later operation passes on.  *)
(***************************************************************************)
EXTENDS Integers, Sequences, FiniteSets, Bags, TLC

\* ------------------------------------------------------------------------
\* uint256 arithmetic
\* ------------------------------------------------------------------------

RADIX == 10000

Max(S) == CHOOSE x \in S : \A y \in S : y <= x

\* s without its leading (most significant) zero limbs
Norm(s) == LET nz == {i \in 1..Len(s) : s[i] # 0}
           IN  IF nz = {} THEN <<>> ELSE SubSeq(s, 1, Max(nz))

\* the uint256 of a TLC integer n >= 0
N(n) == IF n = 0 THEN <<>>
        ELSE IF n < RADIX THEN <<n>>
        ELSE IF n < RADIX * RADIX THEN <<n % RADIX, n \div RADIX>>
        ELSE <<n % RADIX, (n \div RADIX) % RADIX, n \div (RADIX * RADIX)>>

Limb(a, i) == IF 1 <= i /\ i <= Len(a) THEN a[i] ELSE 0

\* the TLC integer of a value below RADIX^2
Small(a) == Limb(a, 1) + RADIX * Limb(a, 2)

Cmp(a, b) ==
    IF Len(a) < Len(b) THEN -1
    ELSE IF Len(a) > Len(b) THEN 1
    ELSE LET df == {i \in 1..Len(a) : a[i] # b[i]}
         IN  IF df = {} THEN 0
             ELSE IF a[Max(df)] < b[Max(df)] THEN -1 ELSE 1

Le(a, b) == Cmp(a, b) <= 0
Lt(a, b) == Cmp(a, b) < 0
Ge(a, b) == Cmp(a, b) >= 0
Gt(a, b) == Cmp(a, b) > 0

\* limbs in 0..2*RADIX-2 brought back below RADIX: the carry into limb i is 1
\* when a lower limb overflows and every limb between passes the carry on
Ripple(s) ==
    LET n    == Len(s)
        c(i) == IF \E j \in 1..(i - 1) :
                      s[j] >= RADIX /\ \A t \in (j + 1)..(i - 1) : s[t] >= RADIX - 1
                THEN 1 ELSE 0
    IN  Norm([i \in 1..(n + 1) |-> (Limb(s, i) + c(i)) % RADIX])

\* one pass of carries: every limb keeps its low part and takes the high part
\* of the limb below
Pass(s) == [i \in 1..(Len(s) + 1) |-> (Limb(s, i) % RADIX) + (Limb(s, i - 1) \div RADIX)]

\* limbs below 2^31 brought back below RADIX
Carry(s) == Ripple(Pass(Pass(Pass(s))))

Add(a, b) ==
    IF a = <<>> THEN b
    ELSE IF b = <<>> THEN a
    ELSE IF Len(a) = 1 /\ Len(b) = 1 THEN N(a[1] + b[1])
    ELSE Ripple([i \in 1..Max({Len(a), Len(b)}) |-> Limb(a, i) + Limb(b, i)])

\* a - b for a >= b: the borrow into limb i is 1 when a lower limb falls
\* short and every limb between passes the borrow on
Sub(a, b) ==
    IF b = <<>> THEN a
    ELSE IF Len(a) <= 2 THEN N(Small(a) - Small(b))
    ELSE LET d(i)  == a[i] - Limb(b, i)
             br(i) == IF \E j \in 1..(i - 1) :
                           d(j) < 0 /\ \A t \in (j + 1)..(i - 1) : d(t) <= 0
                      THEN 1 ELSE 0
         IN  Norm([i \in 1..Len(a) |-> (d(i) - br(i)) % RADIX])

\* a * d for a TLC integer 0 <= d <= RADIX
MulSmall(a, d) ==
    IF d = 0 \/ a = <<>> THEN <<>>
    ELSE IF d = 1 THEN a
    ELSE Carry([i \in 1..Len(a) |-> a[i] * d])

Shift(a, k) == IF a = <<>> \/ k = 0 THEN a ELSE [i \in 1..k |-> 0] \o a

\* the sum of t[i] over i in lo..hi, each t[i] >= 0
Sum(t, lo, hi) == BagCardinality([i \in {j \in lo..hi : t[j] > 0} |-> t[i]])

\* schoolbook product: limb k collects the products a[i] * b[k+1-i]
Mul(a, b) ==
    IF a = <<>> \/ b = <<>> THEN <<>>
    ELSE IF Len(a) = 1 /\ Len(b) = 1 THEN N(a[1] * b[1])
    ELSE IF Len(b) = 1 THEN MulSmall(a, b[1])
    ELSE IF Len(a) = 1 THEN MulSmall(b, a[1])
    ELSE Carry([k \in 1..(Len(a) + Len(b) - 1) |->
                  LET lo == Max({1, k + 1 - Len(b)})
                      hi == IF k < Len(a) THEN k ELSE Len(a)
                  IN  Sum([i \in lo..hi |-> a[i] * b[k + 1 - i]], lo, hi)])

\* short division: a \div d for a TLC integer 1 <= d < RADIX, from limb i
\* down with the remainder rem of the limbs above; q holds their quotient
\* limbs.  (TLC evaluates an operator's argument when it is first used: the
\* test on t and q evaluates both here, before the next limb.)
RECURSIVE DivSmallFrom(_, _, _, _, _)
DivSmallFrom(a, d, i, rem, q) ==
    IF i = 0 THEN q
    ELSE LET t == rem * RADIX + a[i]
         IN  IF t < 0 \/ Len(q) < 0 THEN <<>>
             ELSE DivSmallFrom(a, d, i - 1, t % d, <<t \div d>> \o q)

DivSmall(a, d) == IF d = 1 THEN a ELSE Norm(DivSmallFrom(a, d, Len(a), 0, <<>>))

\* long division of a by b (two limbs or more, top limb >= RADIX \div 2),
\* from quotient limb i down with the running remainder rem: each limb is
\* estimated from the top limbs of the remainder and is at most 2 too large
RECURSIVE DivFrom(_, _, _, _, _)
DivFrom(a, b, i, rem, q) ==
    IF i = 0 THEN q
    ELSE LET cur == Norm(<<a[i]>> \o rem)
             m   == Len(b)
             est == (Limb(cur, m + 1) * RADIX + Limb(cur, m)) \div b[m]
             top == IF est > RADIX - 1 THEN RADIX - 1 ELSE est
             d   == IF Lt(cur, b) THEN 0
                    ELSE Max({x \in {top - 2, top - 1, top} :
                                x >= 0 /\ Le(MulSmall(b, x), cur)})
             nxt == Sub(cur, MulSmall(b, d))
         IN  IF Len(nxt) < 0 \/ Len(q) < 0 THEN <<>>
             ELSE DivFrom(a, b, i - 1, nxt, <<d>> \o q)

\* the number of trailing (least significant) zero limbs of b # 0
ZeroLimbs(b) == (CHOOSE i \in 1..Len(b) : b[i] # 0 /\ \A j \in 1..(i - 1) : b[j] = 0) - 1

\* floor(a / b) for b > 0
Div(a, b) ==
    IF Lt(a, b) THEN <<>>
    ELSE IF Len(a) <= 2 THEN N(Small(a) \div Small(b))
    ELSE LET z  == ZeroLimbs(b)
             a1 == SubSeq(a, z + 1, Len(a))
             b1 == SubSeq(b, z + 1, Len(b))
         IN  IF Len(b1) = 1 THEN DivSmall(a1, b1[1])
             ELSE LET f  == RADIX \div (b1[Len(b1)] + 1)
                      a2 == MulSmall(a1, f)
                      b2 == MulSmall(b1, f)
                      i0 == Len(a2) - Len(b2) + 1
                  IN  Norm(DivFrom(a2, b2, i0, SubSeq(a2, i0 + 1, Len(a2)), <<>>))

\* floor(sqrt(n)) of a TLC integer
RECURSIVE SmallSqrt(_, _, _)
SmallSqrt(n, lo, hi) ==
    IF lo = hi THEN lo
    ELSE LET mid == (lo + hi + 1) \div 2
         IN  IF mid * mid <= n THEN SmallSqrt(n, mid, hi) ELSE SmallSqrt(n, lo, mid - 1)

\* Newton's iteration from x >= floor(sqrt(n)), down to the fixed point
RECURSIVE Newton(_, _)
Newton(n, x) ==
    LET y == DivSmall(Add(x, Div(n, x)), 2)
    IN  IF Lt(y, x) THEN Newton(n, y) ELSE x

\* floor(sqrt(n))
Sqrt(n) ==
    IF n = <<>> THEN <<>>
    ELSE IF Len(n) <= 2 THEN N(SmallSqrt(Small(n), 0, RADIX - 1))
    ELSE LET k   == (Len(n) - 1) \div 2
             top == Small(SubSeq(n, 2 * k + 1, Len(n)))
         IN  Newton(n, Shift(N(SmallSqrt(top, 0, RADIX - 1) + 1), k))

\* ------------------------------------------------------------------------
\* Solidity 0.8 checked arithmetic and OpenZeppelin Math on uint256
\* ------------------------------------------------------------------------

ZERO == <<>>

\* type(uint256).max = 2^256 - 1
MAX_UINT256 == <<9935, 2963, 9131, 4007, 5758, 394, 564, 6564, 9846, 3269,
                 785, 6879, 5008, 7098, 4235, 6195, 3731, 892, 5792, 11>>

\* the magnitude of type(int256).min = -2^255
INT256_MIN_MAG == <<9968, 6481, 9565, 2003, 2879, 197, 282, 3282, 9923, 6634,
                    5392, 3439, 2504, 8549, 7117, 8097, 1865, 446, 7896, 5>>

\* the result of an operation that reverted
PANIC == <<-1>>

Fits(r) == Len(r) < Len(MAX_UINT256) \/ Le(r, MAX_UINT256)

cAdd(a, b) == IF a = PANIC \/ b = PANIC THEN PANIC
              ELSE IF Fits(Add(a, b)) THEN Add(a, b) ELSE PANIC

cSub(a, b) == IF a = PANIC \/ b = PANIC THEN PANIC
              ELSE IF Lt(a, b) THEN PANIC ELSE Sub(a, b)

cMul(a, b) == IF a = PANIC \/ b = PANIC THEN PANIC
              ELSE IF Len(a) + Len(b) > Len(MAX_UINT256) + 1 THEN PANIC
              ELSE IF Fits(Mul(a, b)) THEN Mul(a, b) ELSE PANIC

cDiv(a, b) == IF a = PANIC \/ b = PANIC \/ b = ZERO THEN PANIC ELSE Div(a, b)

\* Math.mulDiv(x, y, denominator): floor(x * y / denominator) at full
\* precision; reverts when the result overflows or the denominator is 0
\* the same rounding up instead of down
mulDivCeil(x, y, denominator) ==
    IF x = PANIC \/ y = PANIC \/ denominator = PANIC \/ denominator = ZERO THEN PANIC
    ELSE LET q == Div(Add(Mul(x, y), Sub(denominator, <<1>>)), denominator)
         IN  IF Fits(q) THEN q ELSE PANIC

mulDiv(x, y, denominator) ==
    IF x = PANIC \/ y = PANIC \/ denominator = PANIC \/ denominator = ZERO THEN PANIC
    ELSE LET q == Div(Mul(x, y), denominator)
         IN  IF Fits(q) THEN q ELSE PANIC

\* Math.sqrt(a): floor(sqrt(a))
sqrt(a) == IF a = PANIC THEN PANIC ELSE Sqrt(a)

\* ------------------------------------------------------------------------
\* Accounts, constants and the inputs of the calls
\* ------------------------------------------------------------------------

Alice == "alice"
Bob   == "bob"
Owner == "owner"            \* the _owner the vault was constructed with
Vault == "vault"            \* address(this) of EasyLVault
Curve == "curve"            \* address(this) of BondingCurve
Zero  == "zero"             \* address(0)
None  == "none"

\* Every user has approved the vault and the curve for type(uint256).max, as
\* setUp does, so a transferFrom fails only for lack of balance.
Users    == {Alice, Bob, Owner}
Accounts == Users \cup {Vault, Curve}

VIRTUAL_OFFSET == 1000
BASE_PRICE == 10000
SLOPE == 10000
SCALE == 1000000

\* n whole USDC in raw 6-decimal units
Usdc(n) == Mul(N(n), N(1000000))

\* what setUp mints to each user
InitialBalance == Usdc(100000)

\* the number of calls in a behaviour
MaxSteps == 3

\* ------------------------------------------------------------------------
\* State
\* ------------------------------------------------------------------------

VARIABLES
    usdc,            \* USDC.balanceOf, per account
    shares,          \* EasyLVault (EASYL) balanceOf, per account
    totalShares,     \* EasyLVault totalSupply()
    managedAssets,   \* EasyLVault.managedAssets
    tokens,          \* BondingCurve (RSIM) balanceOf, per account
    totalSupply,     \* BondingCurve totalSupply()
    reserveBalance,  \* BondingCurve.reserveBalance
    last,            \* the call just made: its arguments and its outcome
    prev,            \* the call made before it
    prev2,           \* the call made before that one, when prev is a buy or a sell
    pre,             \* the balances and counters as they were before the call
    entered,         \* the contracts whose ReentrancyGuard is in its entered state
    pending,         \* the call that is at its USDC transfer, if one is
    steps,           \* the number of calls made
    kv,              \* the worker's KV namespace: the value stored under KV_KEY
    run,             \* each invocation of runCycle: where it is and what it holds
    sent,            \* the transactions the bot has submitted
    data,            \* a HistoryData object that addRecord and nextCycle work on
    added,           \* every entry that addRecord has been given for data, in order
    calls            \* the number of steps the bot's code has made

vars == <<usdc, shares, totalShares, managedAssets, tokens, totalSupply,
          reserveBalance, last, prev, prev2, pre, entered, pending, steps,
          kv, run, sent, data, added, calls>>

vaultVars == <<shares, totalShares, managedAssets>>
curveVars == <<tokens, totalSupply, reserveBalance>>
botVars == <<kv, run, sent, data, added, calls>>

\* the record of the deployment, which stands for "no call"
Constructed ==
    [call |-> [op |-> "constructor", caller |-> None, receiver |-> None,
               arg |-> ZERO, neg |-> FALSE],
     ok |-> TRUE, err |-> None, ea |-> <<>>, out |-> ZERO]

\* what a call leaves in the record of the calls before it
Recorded ==
    /\ prev' = last
    /\ prev2' = IF prev.call.op \in {"buy", "sell"} THEN prev ELSE Constructed
    /\ UNCHANGED botVars

\* the balances and counters of the ledger and the two contracts
Snapshot ==
    [usdc |-> usdc, shares |-> shares, totalShares |-> totalShares,
     managedAssets |-> managedAssets, tokens |-> tokens,
     totalSupply |-> totalSupply, reserveBalance |-> reserveBalance]

Call(op, caller, receiver, arg, neg) ==
    [op |-> op, caller |-> caller, receiver |-> receiver, arg |-> arg, neg |-> neg]

\* the call reverted with error err(ea): nothing but the record of it changes
Revert(call, err, ea) ==
    /\ last' = [call |-> call, ok |-> FALSE, err |-> err, ea |-> ea, out |-> ZERO]
    /\ Recorded
    /\ pre' = Snapshot
    /\ steps' = steps + 1
    /\ UNCHANGED <<usdc, vaultVars, curveVars, entered, pending>>

\* the call returned out
Return(call, out) ==
    /\ last' = [call |-> call, ok |-> TRUE, err |-> None, ea |-> <<>>, out |-> out]
    /\ Recorded
    /\ pre' = Snapshot
    /\ steps' = steps + 1
    /\ UNCHANGED <<entered, pending>>

\* no call is at its transfer
Idle == [call |-> Call("none", None, None, ZERO, FALSE), at |-> 0, out |-> ZERO,
         saved |-> <<>>]

\* Every call is made while the previous one returned: a reverted call left
\* the contracts as they were, so what can follow it can follow the state
\* before it.
CanCall == steps < MaxSteps /\ last.ok

\* The bot's worker before anything has run: nothing is stored under KV_KEY,
\* no invocation of runCycle is under way and no transaction has been sent.
Invocations == {"scheduled", "trigger"}

\* what loadHistory returns when nothing is stored
NoHistory == [records |-> <<>>, cycleCounter |-> 0]

NoState == [vaultAvailableLiquidity |-> 0, mmUsdcBalance |-> 0, mmRsimBalance |-> 0]

\* an action's amount is a string or is left out
NoAmount == [defined |-> FALSE, text |-> <<>>]

NotRunning ==
    [pc |-> "idle", history |-> NoHistory, state |-> NoState,
     action |-> [action |-> "wait", amount |-> NoAmount]]

BotAtRest ==
    /\ kv = <<>>
    /\ run = [i \in Invocations |-> NotRunning]
    /\ sent = <<>>
    /\ data = NoHistory
    /\ added = <<>>
    /\ calls = 0

Init ==
    /\ usdc = [a \in Accounts |-> IF a \in Users THEN InitialBalance ELSE ZERO]
    /\ shares = [a \in Accounts |-> ZERO]
    /\ totalShares = ZERO
    /\ managedAssets = ZERO
    /\ tokens = [a \in Accounts |-> ZERO]
    /\ totalSupply = ZERO
    /\ reserveBalance = ZERO
    /\ last = [call |-> Call("constructor", None, None, ZERO, FALSE),
               ok |-> TRUE, err |-> None, ea |-> <<>>, out |-> ZERO]
    /\ prev = last
    /\ prev2 = last
    /\ BotAtRest
    /\ pre = Snapshot
    /\ entered = {}
    /\ pending = Idle
    /\ steps = 0

\* ------------------------------------------------------------------------
\* EasyLVault
\* ------------------------------------------------------------------------

\* the assets counted without what the owner has deployed
totalAssetsHeldOnly == usdc[Vault]

totalAssets == cAdd(usdc[Vault], managedAssets)

availableLiquidity == usdc[Vault]

\* the conversion rounding the shares up instead of down
convertToSharesRoundedUp(assets) ==
    mulDivCeil(assets, cAdd(totalShares, N(VIRTUAL_OFFSET)),
               cAdd(totalAssets, N(VIRTUAL_OFFSET)))

\* the conversion with a virtual offset of 1
convertToSharesWeakOffset(assets) ==
    mulDiv(assets, cAdd(totalShares, N(1)), cAdd(totalAssets, N(1)))

convertToShares(assets) ==
    mulDiv(assets, cAdd(totalShares, N(VIRTUAL_OFFSET)),
           cAdd(totalAssets, N(VIRTUAL_OFFSET)))

\* the conversion with the virtual offset on the side of the assets only
convertToAssetsUnevenOffset(sh) ==
    mulDiv(sh, cAdd(totalAssets, N(VIRTUAL_OFFSET)), cAdd(totalShares, N(1)))

\* the conversion rounding the assets up instead of down
convertToAssetsRoundedUp(sh) ==
    mulDivCeil(sh, cAdd(totalAssets, N(VIRTUAL_OFFSET)),
           cAdd(totalShares, N(VIRTUAL_OFFSET)))

convertToAssets(sh) ==
    mulDiv(sh, cAdd(totalAssets, N(VIRTUAL_OFFSET)),
           cAdd(totalShares, N(VIRTUAL_OFFSET)))

\* deposit converting after the transfer, when the pool already holds the
\* deposited assets
depositTransferFirst(caller, assets, receiver) ==
    LET call == Call("deposit", caller, receiver, assets, FALSE)
    IN  /\ CanCall
        /\ \E sh \in {mulDiv(assets, cAdd(totalShares, N(VIRTUAL_OFFSET)),
                              cAdd(cAdd(totalAssets, assets), N(VIRTUAL_OFFSET)))} :
           IF assets = ZERO THEN Revert(call, "ZeroAmount", <<>>)
           ELSE IF receiver = Zero THEN Revert(call, "ZeroAddress", <<>>)
           ELSE IF sh = PANIC THEN Revert(call, "Panic", <<>>)
           ELSE IF sh = ZERO THEN Revert(call, "ZeroAmount", <<>>)
           ELSE IF Lt(usdc[caller], assets)
                THEN Revert(call, "ERC20InsufficientBalance", <<usdc[caller], assets>>)
           ELSE IF cAdd(totalShares, sh) = PANIC THEN Revert(call, "Panic", <<>>)
           ELSE /\ usdc' = [usdc EXCEPT ![caller] = Sub(@, assets),
                                        ![Vault] = Add(@, assets)]
                /\ totalShares' = Add(totalShares, sh)
                /\ shares' = [shares EXCEPT ![receiver] = Add(@, sh)]
                /\ Return(call, sh)
                /\ UNCHANGED <<managedAssets, curveVars>>

deposit(caller, assets, receiver) ==
    LET call == Call("deposit", caller, receiver, assets, FALSE)
    IN  /\ CanCall
        /\ \E sh \in {convertToShares(assets)} :
           IF Vault \in entered THEN Revert(call, "ReentrancyGuardReentrantCall", <<>>)
           ELSE IF assets = ZERO THEN Revert(call, "ZeroAmount", <<>>)
           ELSE IF receiver = Zero THEN Revert(call, "ZeroAddress", <<>>)
           ELSE IF sh = PANIC THEN Revert(call, "Panic", <<>>)
           ELSE IF sh = ZERO THEN Revert(call, "ZeroAmount", <<>>)
           ELSE IF Lt(usdc[caller], assets)
                THEN Revert(call, "ERC20InsufficientBalance", <<usdc[caller], assets>>)
           ELSE IF cAdd(totalShares, sh) = PANIC THEN Revert(call, "Panic", <<>>)
           ELSE /\ usdc' = [usdc EXCEPT ![caller] = Sub(@, assets),
                                        ![Vault] = Add(@, assets)]
                /\ totalShares' = Add(totalShares, sh)
                /\ shares' = [shares EXCEPT ![receiver] = Add(@, sh)]
                /\ Return(call, sh)
                /\ UNCHANGED <<managedAssets, curveVars>>

\* redeem that burns what the caller holds when asked to burn more than that
redeemBurningUnheld(caller, sh, receiver) ==
    LET call == Call("redeem", caller, receiver, sh, FALSE)
        liquidity == availableLiquidity
    IN  /\ CanCall
        /\ \E assets \in {convertToAssets(sh)} :
           IF Vault \in entered THEN Revert(call, "ReentrancyGuardReentrantCall", <<>>)
           ELSE IF sh = ZERO THEN Revert(call, "ZeroAmount", <<>>)
           ELSE IF receiver = Zero THEN Revert(call, "ZeroAddress", <<>>)
           ELSE IF assets = PANIC THEN Revert(call, "Panic", <<>>)
           ELSE IF assets = ZERO THEN Revert(call, "ZeroAmount", <<>>)
           ELSE IF Gt(assets, liquidity)
                THEN Revert(call, "InsufficientLiquidity", <<assets, liquidity>>)
           ELSE /\ shares' = [shares EXCEPT ![caller] = IF Lt(@, sh) THEN ZERO ELSE Sub(@, sh)]
                /\ totalShares' = Sub(totalShares, sh)
                /\ usdc' = [a \in Accounts |->
                              IF a = Vault /\ a = receiver THEN usdc[a]
                              ELSE IF a = Vault THEN Sub(usdc[a], assets)
                              ELSE IF a = receiver THEN Add(usdc[a], assets)
                              ELSE usdc[a]]
                /\ Return(call, assets)
                /\ UNCHANGED <<managedAssets, curveVars>>

redeem(caller, sh, receiver) ==
    LET call == Call("redeem", caller, receiver, sh, FALSE)
        liquidity == availableLiquidity
    IN  /\ CanCall
        /\ \E assets \in {convertToAssets(sh)} :
           IF Vault \in entered THEN Revert(call, "ReentrancyGuardReentrantCall", <<>>)
           ELSE IF sh = ZERO THEN Revert(call, "ZeroAmount", <<>>)
           ELSE IF receiver = Zero THEN Revert(call, "ZeroAddress", <<>>)
           ELSE IF assets = PANIC THEN Revert(call, "Panic", <<>>)
           ELSE IF assets = ZERO THEN Revert(call, "ZeroAmount", <<>>)
           ELSE IF Gt(assets, liquidity)
                THEN Revert(call, "InsufficientLiquidity", <<assets, liquidity>>)
           ELSE IF Lt(shares[caller], sh)
                THEN Revert(call, "ERC20InsufficientBalance", <<shares[caller], sh>>)
           ELSE /\ shares' = [shares EXCEPT ![caller] = Sub(@, sh)]
                /\ totalShares' = Sub(totalShares, sh)
                /\ usdc' = [a \in Accounts |->
                              IF a = Vault /\ a = receiver THEN usdc[a]
                              ELSE IF a = Vault THEN Sub(usdc[a], assets)
                              ELSE IF a = receiver THEN Add(usdc[a], assets)
                              ELSE usdc[a]]
                /\ Return(call, assets)
                /\ UNCHANGED <<managedAssets, curveVars>>

\* deployFunds paying out without recording the amount as managed
deployFundsUntracked(caller, amount) ==
    LET call == Call("deployFunds", caller, None, amount, FALSE)
        liquidity == availableLiquidity
    IN  /\ CanCall
        /\ IF caller # Owner THEN Revert(call, "OwnableUnauthorizedAccount", <<>>)
           ELSE IF amount = ZERO THEN Revert(call, "ZeroAmount", <<>>)
           ELSE IF Gt(amount, liquidity)
                THEN Revert(call, "InsufficientLiquidity", <<amount, liquidity>>)
           ELSE /\ usdc' = [usdc EXCEPT ![Vault] = Sub(@, amount),
                                        ![caller] = Add(@, amount)]
                /\ Return(call, ZERO)
                /\ UNCHANGED <<vaultVars, curveVars>>

deployFunds(caller, amount) ==
    LET call == Call("deployFunds", caller, None, amount, FALSE)
        liquidity == availableLiquidity
    IN  /\ CanCall
        /\ IF caller # Owner THEN Revert(call, "OwnableUnauthorizedAccount", <<>>)
           ELSE IF amount = ZERO THEN Revert(call, "ZeroAmount", <<>>)
           ELSE IF Gt(amount, liquidity)
                THEN Revert(call, "InsufficientLiquidity", <<amount, liquidity>>)
           ELSE IF cAdd(managedAssets, amount) = PANIC THEN Revert(call, "Panic", <<>>)
           ELSE /\ managedAssets' = Add(managedAssets, amount)
                /\ usdc' = [usdc EXCEPT ![Vault] = Sub(@, amount),
                                        ![caller] = Add(@, amount)]
                /\ Return(call, ZERO)
                /\ UNCHANGED <<shares, totalShares, curveVars>>

\* returnFunds without onlyOwner
returnFundsByAnyone(caller, amount) ==
    LET call == Call("returnFunds", caller, None, amount, FALSE)
    IN  /\ CanCall
        /\ IF amount = ZERO THEN Revert(call, "ZeroAmount", <<>>)
           ELSE IF Gt(amount, managedAssets)
                THEN Revert(call, "ExcessiveReduction", <<amount, managedAssets>>)
           ELSE IF Lt(usdc[caller], amount)
                THEN Revert(call, "ERC20InsufficientBalance", <<usdc[caller], amount>>)
           ELSE /\ managedAssets' = Sub(managedAssets, amount)
                /\ usdc' = [usdc EXCEPT ![caller] = Sub(@, amount),
                                        ![Vault] = Add(@, amount)]
                /\ Return(call, ZERO)
                /\ UNCHANGED <<shares, totalShares, curveVars>>

returnFunds(caller, amount) ==
    LET call == Call("returnFunds", caller, None, amount, FALSE)
    IN  /\ CanCall
        /\ IF caller # Owner THEN Revert(call, "OwnableUnauthorizedAccount", <<>>)
           ELSE IF amount = ZERO THEN Revert(call, "ZeroAmount", <<>>)
           ELSE IF Gt(amount, managedAssets)
                THEN Revert(call, "ExcessiveReduction", <<amount, managedAssets>>)
           ELSE IF Lt(usdc[caller], amount)
                THEN Revert(call, "ERC20InsufficientBalance", <<usdc[caller], amount>>)
           ELSE /\ managedAssets' = Sub(managedAssets, amount)
                /\ usdc' = [usdc EXCEPT ![caller] = Sub(@, amount),
                                        ![Vault] = Add(@, amount)]
                /\ Return(call, ZERO)
                /\ UNCHANGED <<shares, totalShares, curveVars>>

\* reportPnL(amount), the int256 amount given as its sign and magnitude
\* reportPnL taking a loss out of the pool's share count as well
reportPnLBurningShares(caller, neg, mag) ==
    LET call == Call("reportPnL", caller, None, mag, neg)
    IN  /\ CanCall
        /\ IF caller # Owner THEN Revert(call, "OwnableUnauthorizedAccount", <<>>)
           ELSE IF mag = ZERO
                THEN Return(call, ZERO) /\ UNCHANGED <<usdc, vaultVars, curveVars>>
           ELSE IF ~neg
                THEN IF cAdd(managedAssets, mag) = PANIC THEN Revert(call, "Panic", <<>>)
                     ELSE /\ managedAssets' = Add(managedAssets, mag)
                          /\ Return(call, ZERO)
                          /\ UNCHANGED <<usdc, shares, totalShares, curveVars>>
           ELSE IF mag = INT256_MIN_MAG THEN Revert(call, "Panic", <<>>)
           ELSE IF Gt(mag, managedAssets)
                THEN Revert(call, "ExcessiveReduction", <<mag, managedAssets>>)
           ELSE /\ managedAssets' = Sub(managedAssets, mag)
                /\ totalShares' = IF Ge(totalShares, mag) THEN Sub(totalShares, mag) ELSE ZERO
                /\ Return(call, ZERO)
                /\ UNCHANGED <<usdc, shares, curveVars>>

reportPnL(caller, neg, mag) ==
    LET call == Call("reportPnL", caller, None, mag, neg)
    IN  /\ CanCall
        /\ IF caller # Owner THEN Revert(call, "OwnableUnauthorizedAccount", <<>>)
           ELSE IF mag = ZERO
                THEN Return(call, ZERO) /\ UNCHANGED <<usdc, vaultVars, curveVars>>
           ELSE IF ~neg
                THEN IF cAdd(managedAssets, mag) = PANIC THEN Revert(call, "Panic", <<>>)
                     ELSE /\ managedAssets' = Add(managedAssets, mag)
                          /\ Return(call, ZERO)
                          /\ UNCHANGED <<usdc, shares, totalShares, curveVars>>
           ELSE IF mag = INT256_MIN_MAG THEN Revert(call, "Panic", <<>>)
           ELSE IF Gt(mag, managedAssets)
                THEN Revert(call, "ExcessiveReduction", <<mag, managedAssets>>)
           ELSE /\ managedAssets' = Sub(managedAssets, mag)
                /\ Return(call, ZERO)
                /\ UNCHANGED <<usdc, shares, totalShares, curveVars>>

\* USDC.transfer(address(vault), amount) by a holder: a direct donation
transfer(caller, amount) ==
    LET call == Call("transfer", caller, Vault, amount, FALSE)
    IN  /\ CanCall
        /\ IF Lt(usdc[caller], amount)
                THEN Revert(call, "ERC20InsufficientBalance", <<usdc[caller], amount>>)
           ELSE /\ usdc' = [usdc EXCEPT ![caller] = Sub(@, amount),
                                        ![Vault] = Add(@, amount)]
                /\ Return(call, ZERO)
                /\ UNCHANGED <<vaultVars, curveVars>>

\* type(int256).max = 2^255 - 1
INT256_MAX == Sub(INT256_MIN_MAG, <<1>>)

\* the share amounts a holder asks to redeem: none, one, all they hold, or
\* exactly what the deposit just made minted
RedeemChoices == {"none", "one", "all", "minted"}
RedeemAmount(caller, which) ==
    IF which = "none" THEN ZERO
    ELSE IF which = "one" THEN N(1)
    ELSE IF which = "minted" /\ last.call.op = "deposit" /\ last.ok THEN last.out
    ELSE shares[caller]

DepositAmounts == {ZERO, N(1), Usdc(1000)}
OwnerAmounts == {ZERO, N(1), Usdc(500), MAX_UINT256}
PnLMagnitudes(neg) ==
    {ZERO, N(1), Usdc(1000)} \cup (IF neg THEN {INT256_MIN_MAG} ELSE {INT256_MAX})
DonationAmounts == {N(1), Usdc(10000)}

NextVault ==
    \/ \E caller \in {Alice, Bob}, assets \in DepositAmounts, receiver \in {Alice, Bob, Zero} :
          deposit(caller, assets, receiver)
    \/ \E caller \in {Alice, Bob}, which \in RedeemChoices, receiver \in {Alice, Vault, Zero} :
          redeem(caller, RedeemAmount(caller, which), receiver)
    \/ \E caller \in {Owner, Alice}, amount \in OwnerAmounts : deployFunds(caller, amount)
    \/ \E caller \in {Owner, Alice}, amount \in OwnerAmounts : returnFunds(caller, amount)
    \/ \E caller \in {Owner, Alice}, neg \in BOOLEAN :
          \E mag \in PnLMagnitudes(neg) : reportPnL(caller, neg, mag)
    \/ \E caller \in {Bob}, amount \in DonationAmounts : transfer(caller, amount)

SpecVault == Init /\ [][NextVault]_vars

\* ------------------------------------------------------------------------
\* BondingCurve
\* ------------------------------------------------------------------------

\* a price that does not follow the supply
priceAtFlat(supply) == N(BASE_PRICE)

\* the price getPrice computes when totalSupply() is supply
priceAt(supply) == cAdd(N(BASE_PRICE), cDiv(cMul(N(SLOPE), supply), N(SCALE)))

getPrice == priceAt(totalSupply)

\* the cost integral with both parts rounded up instead of down
_integralCostRoundedUp(sLow, sHigh) ==
    LET delta      == cSub(sHigh, sLow)
        linearPart == mulDivCeil(N(BASE_PRICE), delta, N(SCALE))
        quadPart   == mulDivCeil(cMul(N(SLOPE), cAdd(sHigh, sLow)), delta,
                                 cMul(cMul(N(2), N(SCALE)), N(SCALE)))
    IN  cAdd(linearPart, quadPart)

\* the cost integral without its quadratic part
_integralCostLinearOnly(sLow, sHigh) ==
    mulDiv(N(BASE_PRICE), cSub(sHigh, sLow), N(SCALE))

_integralCost(sLow, sHigh) ==
    LET delta      == cSub(sHigh, sLow)
        linearPart == mulDiv(N(BASE_PRICE), delta, N(SCALE))
        quadPart   == mulDiv(cMul(N(SLOPE), cAdd(sHigh, sLow)), delta,
                             cMul(cMul(N(2), N(SCALE)), N(SCALE)))
    IN  cAdd(linearPart, quadPart)

\* the inverse solve rounding the token count up instead of down
_tokensForExactUsdcRoundedUp(usdcAmount) ==
    LET s0 == totalSupply
        b  == cAdd(cMul(N(SCALE), N(BASE_PRICE)), cMul(N(SLOPE), s0))
        discriminant ==
            cAdd(cMul(b, b),
                 cMul(cMul(cMul(cMul(N(2), N(SLOPE)), N(SCALE)), N(SCALE)), usdcAmount))
        sqrtDisc == sqrt(discriminant)
    IN  IF sqrtDisc = PANIC THEN PANIC
        ELSE IF Le(sqrtDisc, b) THEN ZERO
        ELSE cAdd(cDiv(cSub(sqrtDisc, b), N(SLOPE)), N(1))

\* the inverse solve taken from supply zero whatever the supply is
_tokensForExactUsdcFromZero(usdcAmount) ==
    LET b  == cMul(N(SCALE), N(BASE_PRICE))
        discriminant ==
            cAdd(cMul(b, b),
                 cMul(cMul(cMul(cMul(N(2), N(SLOPE)), N(SCALE)), N(SCALE)), usdcAmount))
        sqrtDisc == sqrt(discriminant)
    IN  IF sqrtDisc = PANIC THEN PANIC
        ELSE IF Le(sqrtDisc, b) THEN ZERO
        ELSE cDiv(cSub(sqrtDisc, b), N(SLOPE))

_tokensForExactUsdc(usdcAmount) ==
    LET s0 == totalSupply
        b  == cAdd(cMul(N(SCALE), N(BASE_PRICE)), cMul(N(SLOPE), s0))
        discriminant ==
            cAdd(cMul(b, b),
                 cMul(cMul(cMul(cMul(N(2), N(SLOPE)), N(SCALE)), N(SCALE)), usdcAmount))
        sqrtDisc == sqrt(discriminant)
    IN  IF sqrtDisc = PANIC THEN PANIC
        ELSE IF Le(sqrtDisc, b) THEN ZERO
        ELSE cDiv(cSub(sqrtDisc, b), N(SLOPE))

getBuyCost(tokenAmount) ==
    IF tokenAmount = ZERO THEN ZERO
    ELSE LET s0 == totalSupply
             s1 == cAdd(s0, tokenAmount)
         IN  IF s1 = PANIC THEN PANIC ELSE _integralCost(s0, s1)

\* what getSellReturn(tokenAmount) returns, when it does not revert
getSellReturn(tokenAmount) ==
    IF tokenAmount = ZERO THEN ZERO
    ELSE LET s0 == totalSupply
             s1 == cSub(s0, tokenAmount)
         IN  IF s1 = PANIC THEN PANIC ELSE _integralCost(s1, s0)

\* buy that goes on when no token can be minted for usdcAmount
buyMintingNothing(caller, usdcAmount) ==
    LET call == Call("buy", caller, None, usdcAmount, FALSE)
    IN  /\ CanCall
        /\ \E tokenAmount \in {_tokensForExactUsdc(usdcAmount)} :
           IF Curve \in entered THEN Revert(call, "ReentrancyGuardReentrantCall", <<>>)
           ELSE IF usdcAmount = ZERO THEN Revert(call, "ZeroAmount", <<>>)
           ELSE IF tokenAmount = PANIC THEN Revert(call, "Panic", <<>>)
           ELSE IF Lt(usdc[caller], usdcAmount)
                THEN Revert(call, "ERC20InsufficientBalance", <<usdc[caller], usdcAmount>>)
           ELSE IF cAdd(reserveBalance, usdcAmount) = PANIC \/ cAdd(totalSupply, tokenAmount) = PANIC
                THEN Revert(call, "Panic", <<>>)
           ELSE /\ usdc' = [usdc EXCEPT ![caller] = Sub(@, usdcAmount),
                                        ![Curve] = Add(@, usdcAmount)]
                /\ reserveBalance' = Add(reserveBalance, usdcAmount)
                /\ totalSupply' = Add(totalSupply, tokenAmount)
                /\ tokens' = [tokens EXCEPT ![caller] = Add(@, tokenAmount)]
                /\ Return(call, tokenAmount)
                /\ UNCHANGED vaultVars

\* buy that adds to the reserve the cost of the tokens minted, not usdcAmount
buyReservingCost(caller, usdcAmount) ==
    LET call == Call("buy", caller, None, usdcAmount, FALSE)
    IN  /\ CanCall
        /\ \E tokenAmount \in {_tokensForExactUsdc(usdcAmount)} :
           IF Curve \in entered THEN Revert(call, "ReentrancyGuardReentrantCall", <<>>)
           ELSE IF usdcAmount = ZERO THEN Revert(call, "ZeroAmount", <<>>)
           ELSE IF tokenAmount = PANIC THEN Revert(call, "Panic", <<>>)
           ELSE IF tokenAmount = ZERO THEN Revert(call, "ZeroAmount", <<>>)
           ELSE IF Lt(usdc[caller], usdcAmount)
                THEN Revert(call, "ERC20InsufficientBalance", <<usdc[caller], usdcAmount>>)
           ELSE IF cAdd(reserveBalance, usdcAmount) = PANIC \/ cAdd(totalSupply, tokenAmount) = PANIC
                THEN Revert(call, "Panic", <<>>)
           ELSE /\ usdc' = [usdc EXCEPT ![caller] = Sub(@, usdcAmount),
                                        ![Curve] = Add(@, usdcAmount)]
                /\ reserveBalance' = Add(reserveBalance, getBuyCost(tokenAmount))
                /\ totalSupply' = Add(totalSupply, tokenAmount)
                /\ tokens' = [tokens EXCEPT ![caller] = Add(@, tokenAmount)]
                /\ Return(call, tokenAmount)
                /\ UNCHANGED vaultVars

\* buy without nonReentrant
buyUnguarded(caller, usdcAmount) ==
    LET call == Call("buy", caller, None, usdcAmount, FALSE)
    IN  /\ CanCall
        /\ \E tokenAmount \in {_tokensForExactUsdc(usdcAmount)} :
           IF usdcAmount = ZERO THEN Revert(call, "ZeroAmount", <<>>)
           ELSE IF tokenAmount = PANIC THEN Revert(call, "Panic", <<>>)
           ELSE IF tokenAmount = ZERO THEN Revert(call, "ZeroAmount", <<>>)
           ELSE IF Lt(usdc[caller], usdcAmount)
                THEN Revert(call, "ERC20InsufficientBalance", <<usdc[caller], usdcAmount>>)
           ELSE IF cAdd(reserveBalance, usdcAmount) = PANIC \/ cAdd(totalSupply, tokenAmount) = PANIC
                THEN Revert(call, "Panic", <<>>)
           ELSE /\ usdc' = [usdc EXCEPT ![caller] = Sub(@, usdcAmount),
                                        ![Curve] = Add(@, usdcAmount)]
                /\ reserveBalance' = Add(reserveBalance, usdcAmount)
                /\ totalSupply' = Add(totalSupply, tokenAmount)
                /\ tokens' = [tokens EXCEPT ![caller] = Add(@, tokenAmount)]
                /\ Return(call, tokenAmount)
                /\ UNCHANGED vaultVars

buy(caller, usdcAmount) ==
    LET call == Call("buy", caller, None, usdcAmount, FALSE)
    IN  /\ CanCall
        /\ \E tokenAmount \in {_tokensForExactUsdc(usdcAmount)} :
           IF Curve \in entered THEN Revert(call, "ReentrancyGuardReentrantCall", <<>>)
           ELSE IF usdcAmount = ZERO THEN Revert(call, "ZeroAmount", <<>>)
           ELSE IF tokenAmount = PANIC THEN Revert(call, "Panic", <<>>)
           ELSE IF tokenAmount = ZERO THEN Revert(call, "ZeroAmount", <<>>)
           ELSE IF Lt(usdc[caller], usdcAmount)
                THEN Revert(call, "ERC20InsufficientBalance", <<usdc[caller], usdcAmount>>)
           ELSE IF cAdd(reserveBalance, usdcAmount) = PANIC \/ cAdd(totalSupply, tokenAmount) = PANIC
                THEN Revert(call, "Panic", <<>>)
           ELSE /\ usdc' = [usdc EXCEPT ![caller] = Sub(@, usdcAmount),
                                        ![Curve] = Add(@, usdcAmount)]
                /\ reserveBalance' = Add(reserveBalance, usdcAmount)
                /\ totalSupply' = Add(totalSupply, tokenAmount)
                /\ tokens' = [tokens EXCEPT ![caller] = Add(@, tokenAmount)]
                /\ Return(call, tokenAmount)
                /\ UNCHANGED vaultVars

\* sell that burns the tokens also when the computed return is 0
sellForNothing(caller, tokenAmount) ==
    LET call == Call("sell", caller, None, tokenAmount, FALSE)
    IN  /\ CanCall
        /\ \E usdcAmount \in {getSellReturn(tokenAmount)} :
           IF Curve \in entered THEN Revert(call, "ReentrancyGuardReentrantCall", <<>>)
           ELSE IF tokenAmount = ZERO THEN Revert(call, "ZeroAmount", <<>>)
           ELSE IF Gt(tokenAmount, tokens[caller])
                THEN Revert(call, "InsufficientTokens", <<tokenAmount, tokens[caller]>>)
           ELSE IF Gt(tokenAmount, totalSupply)
                THEN Revert(call, "InsufficientTokens", <<tokenAmount, totalSupply>>)
           ELSE IF usdcAmount = PANIC THEN Revert(call, "Panic", <<>>)
           ELSE IF cSub(reserveBalance, usdcAmount) = PANIC THEN Revert(call, "Panic", <<>>)
           ELSE IF Lt(usdc[Curve], usdcAmount)
                THEN Revert(call, "ERC20InsufficientBalance", <<usdc[Curve], usdcAmount>>)
           ELSE /\ tokens' = [tokens EXCEPT ![caller] = Sub(@, tokenAmount)]
                /\ totalSupply' = Sub(totalSupply, tokenAmount)
                /\ reserveBalance' = Sub(reserveBalance, usdcAmount)
                /\ usdc' = [usdc EXCEPT ![Curve] = Sub(@, usdcAmount),
                                        ![caller] = Add(@, usdcAmount)]
                /\ Return(call, usdcAmount)
                /\ UNCHANGED vaultVars

sell(caller, tokenAmount) ==
    LET call == Call("sell", caller, None, tokenAmount, FALSE)
    IN  /\ CanCall
        /\ \E usdcAmount \in {getSellReturn(tokenAmount)} :
           IF Curve \in entered THEN Revert(call, "ReentrancyGuardReentrantCall", <<>>)
           ELSE IF tokenAmount = ZERO THEN Revert(call, "ZeroAmount", <<>>)
           ELSE IF Gt(tokenAmount, tokens[caller])
                THEN Revert(call, "InsufficientTokens", <<tokenAmount, tokens[caller]>>)
           ELSE IF Gt(tokenAmount, totalSupply)
                THEN Revert(call, "InsufficientTokens", <<tokenAmount, totalSupply>>)
           ELSE IF usdcAmount = PANIC THEN Revert(call, "Panic", <<>>)
           ELSE IF usdcAmount = ZERO THEN Revert(call, "ZeroAmount", <<>>)
           ELSE IF cSub(reserveBalance, usdcAmount) = PANIC THEN Revert(call, "Panic", <<>>)
           ELSE IF Lt(usdc[Curve], usdcAmount)
                THEN Revert(call, "ERC20InsufficientBalance", <<usdc[Curve], usdcAmount>>)
           ELSE /\ tokens' = [tokens EXCEPT ![caller] = Sub(@, tokenAmount)]
                /\ totalSupply' = Sub(totalSupply, tokenAmount)
                /\ reserveBalance' = Sub(reserveBalance, usdcAmount)
                /\ usdc' = [usdc EXCEPT ![Curve] = Sub(@, usdcAmount),
                                        ![caller] = Add(@, usdcAmount)]
                /\ Return(call, usdcAmount)
                /\ UNCHANGED vaultVars

BuyAmounts == {ZERO, N(1), N(12345), Usdc(1000), Usdc(200000), MAX_UINT256}

\* the token amounts a holder asks to sell: none, one, half or all of what
\* they hold, one more than that, or what their buy has just minted
SellChoices == {"none", "one", "half", "all", "more", "minted"}
SellAmount(caller, which) ==
    IF which = "none" THEN ZERO
    ELSE IF which = "minted"
    THEN IF last.call.op = "buy" /\ last.ok /\ last.call.caller = caller
         THEN last.out ELSE ZERO
    ELSE IF which = "one" THEN N(1)
    ELSE IF which = "half" THEN DivSmall(tokens[caller], 2)
    ELSE IF which = "all" THEN tokens[caller]
    ELSE Add(tokens[caller], N(1))

NextCurve ==
    \/ \E usdcAmount \in BuyAmounts, caller \in {Alice, Bob} : buy(caller, usdcAmount)
    \/ \E caller \in {Alice, Bob}, which \in SellChoices :
          sell(caller, SellAmount(caller, which))

SpecCurve == Init /\ [][NextCurve]_vars

\* ------------------------------------------------------------------------
\* Properties of the bonding curve (under SpecCurve)
\* ------------------------------------------------------------------------

\* C1: in every reachable state of the curve, whatever successful and failed
\* buys and sells led to it, reserveBalance is at least
\* _integralCost(0, totalSupply).
C1_ReserveCoversIntegralCost ==
    /\ _integralCost(ZERO, totalSupply) # PANIC
    /\ Ge(reserveBalance, _integralCost(ZERO, totalSupply))

\* tokens are outstanding after buys by both callers and a sale
C1_Witness ==
    /\ last.call.op = "sell" /\ last.ok
    /\ tokens[Alice] # ZERO /\ tokens[Bob] # ZERO

\* C2, as stated: in every reachable state reserveBalance equals the
\* integral of the price curve from 0 to totalSupply, and is 0 whenever
\* totalSupply is 0.
C2_ReserveEqualsIntegral ==
    /\ reserveBalance = _integralCost(ZERO, totalSupply)
    /\ totalSupply = ZERO => reserveBalance = ZERO

\* 2 * SCALE^2 times the real-valued integral of the price from 0 to supply:
\* 2 * SCALE * BASE_PRICE * supply + SLOPE * supply^2
TwiceScaledIntegral(supply) ==
    Add(Mul(Mul(Mul(N(2), N(SCALE)), N(BASE_PRICE)), supply),
        Mul(N(SLOPE), Mul(supply, supply)))

\* C2, amended: in every reachable state reserveBalance is at least the
\* real-valued integral of the price curve from 0 to totalSupply (never
\* less, but not always equal: what a buy pays beyond the cost of the
\* rounded-down tokens, and what a sale's rounded-down return leaves, stays
\* in the reserve), and it is 0 as long as no buy has succeeded.
C2_ReserveAtLeastRealIntegral ==
    /\ Ge(Mul(Mul(Mul(N(2), N(SCALE)), N(SCALE)), reserveBalance),
          TwiceScaledIntegral(totalSupply))
    /\ usdc[Curve] = ZERO => reserveBalance = ZERO

\* everything was sold back and the reserve still holds the remainders
C2_Witness ==
    /\ last.call.op = "sell" /\ last.ok
    /\ totalSupply = ZERO
    /\ reserveBalance # ZERO

\* ------------------------------------------------------------------------
\* Properties of the vault (under SpecVault)
\* ------------------------------------------------------------------------

K == N(VIRTUAL_OFFSET)

Succeeded(r, op) == r.call.op = op /\ r.ok

\* totalAssets as it was before the last call
PreTotalAssets == cAdd(pre.usdc[Vault], pre.managedAssets)

\* C3: every successful deposit or redeem rounds toward the pool: with the
\* values before the call unprimed and those after it primed,
\* (totalAssets' + K) * (totalShares + K) >= (totalAssets + K) * (totalShares' + K).
C3_RoundsTowardPool ==
    (Succeeded(last, "deposit") \/ Succeeded(last, "redeem")) =>
        /\ PreTotalAssets # PANIC /\ totalAssets # PANIC
        /\ Ge(Mul(Add(totalAssets, K), Add(pre.totalShares, K)),
              Mul(Add(PreTotalAssets, K), Add(totalShares, K)))

\* a redeem went through while other holders remain and a share is not
\* worth one unit
C3_Witness ==
    /\ Succeeded(last, "redeem")
    /\ totalShares # ZERO
    /\ totalAssets # totalShares

\* C4: a successful deployFunds(amount) moves exactly amount from the pool
\* balance to managedAssets, a successful returnFunds(amount) moves it back,
\* and both leave totalAssets, totalShares and every holder's shares as
\* they were.
C4_DeployReturnRelocate ==
    /\ Succeeded(last, "deployFunds") =>
          /\ Ge(pre.usdc[Vault], last.call.arg)
          /\ usdc[Vault] = Sub(pre.usdc[Vault], last.call.arg)
          /\ managedAssets = Add(pre.managedAssets, last.call.arg)
          /\ totalAssets = PreTotalAssets
          /\ totalShares = pre.totalShares /\ shares = pre.shares
    /\ Succeeded(last, "returnFunds") =>
          /\ Ge(pre.managedAssets, last.call.arg)
          /\ usdc[Vault] = Add(pre.usdc[Vault], last.call.arg)
          /\ managedAssets = Sub(pre.managedAssets, last.call.arg)
          /\ totalAssets = PreTotalAssets
          /\ totalShares = pre.totalShares /\ shares = pre.shares

\* funds were deployed and then returned while holders have shares
C4_Witness ==
    /\ Succeeded(last, "returnFunds") /\ Succeeded(prev, "deployFunds")
    /\ totalShares # ZERO

\* totalAssets is what it was before the last call plus (minus, if neg)
\* amount; nothing is said when totalAssets() overflowed before the call
ChangedBy(neg, amount) ==
    \/ PreTotalAssets = PANIC
    \/ totalAssets = IF neg THEN cSub(PreTotalAssets, amount)
                            ELSE cAdd(PreTotalAssets, amount)

\* C5, as stated: in every step, direct transfers of USDC to the vault
\* included, totalAssets grows by the assets of a deposit, shrinks by the
\* assets a redeem pays out, changes by the signed amount of a reportPnL,
\* and is unchanged otherwise.
C5_TotalAssetsChangesOnlyByThree ==
    IF Succeeded(last, "deposit") THEN ChangedBy(FALSE, last.call.arg)
    ELSE IF Succeeded(last, "redeem") THEN ChangedBy(TRUE, last.out)
    ELSE IF Succeeded(last, "reportPnL") THEN ChangedBy(last.call.neg, last.call.arg)
    ELSE totalAssets = PreTotalAssets

\* C5, amended: totalAssets also grows by the amount of a direct transfer of
\* USDC to the vault, and a redeem whose receiver is the vault itself leaves
\* it unchanged; a deposit adds its assets, any other redeem subtracts what
\* it pays out, a reportPnL applies its signed amount, and every other step
\* (deployFunds, returnFunds, every reverted call) leaves it unchanged.
C5_TotalAssetsChanges ==
    IF Succeeded(last, "deposit") THEN ChangedBy(FALSE, last.call.arg)
    ELSE IF Succeeded(last, "redeem") /\ last.call.receiver # Vault
         THEN ChangedBy(TRUE, last.out)
    ELSE IF Succeeded(last, "reportPnL") THEN ChangedBy(last.call.neg, last.call.arg)
    ELSE IF Succeeded(last, "transfer") THEN ChangedBy(FALSE, last.call.arg)
    ELSE totalAssets = PreTotalAssets

\* a donation reached the vault after funds were deployed
C5_Witness ==
    /\ Succeeded(last, "transfer")
    /\ managedAssets # ZERO

\* an owner's call asked to take more out of managedAssets than it held
ExcessiveReturn ==
    /\ last.call.op = "returnFunds" /\ last.call.caller = Owner
    /\ Gt(last.call.arg, pre.managedAssets)

ExcessiveLoss ==
    /\ last.call.op = "reportPnL" /\ last.call.caller = Owner
    /\ last.call.neg
    /\ Gt(last.call.arg, pre.managedAssets)

\* C6: managedAssets is never negative: a returnFunds(amount) with
\* amount > managedAssets and a reportPnL of a loss > managedAssets are
\* rejected with ExcessiveReduction(requested, managedAssets), and leave
\* managedAssets, the pool balance and totalShares unchanged.
C6_ExcessiveReductionRejected ==
    /\ Fits(managedAssets)
    /\ (ExcessiveReturn \/ ExcessiveLoss) =>
          /\ ~last.ok
          /\ last.err = "ExcessiveReduction"
          /\ last.ea = <<last.call.arg, pre.managedAssets>>
          /\ managedAssets = pre.managedAssets
          /\ usdc[Vault] = pre.usdc[Vault]
          /\ totalShares = pre.totalShares

\* the shares a deposit just minted were redeemed by the next call
RoundTrip ==
    /\ Succeeded(prev, "deposit") /\ Succeeded(last, "redeem")
    /\ last.call.arg = prev.out

\* C7: whenever a deposit(a) succeeds and the shares it minted are redeemed
\* at once, the redeem returns at most a.
C7_RoundTripNeverProfits == RoundTrip => Le(last.out, prev.call.arg)

\* a round trip that returned less than was deposited
C7_Witness == RoundTrip /\ Lt(last.out, prev.call.arg)

\* C8, as stated: whenever a deposit(a) succeeds and the shares it minted
\* are redeemed at once, the redeem returns at least a - 1.
C8_RoundTripLosesAtMostOne == RoundTrip => Ge(Add(last.out, N(1)), prev.call.arg)

\* C8, amended: the round trip loses less than one unit plus the
\* offset-adjusted price of a share before the deposit,
\* (a - out - 1) * (totalShares + K) < totalAssets + K, so it loses at most one
\* unit when totalAssets <= totalShares before the deposit (as in an empty
\* vault), and can lose more once a profit or a donation has raised the price.
C8_RoundTripLossBoundedByPrice ==
    RoundTrip =>
        LET a  == prev.call.arg
            A0 == Sub(PreTotalAssets, a)
            S0 == Sub(pre.totalShares, prev.out)
        IN  /\ Lt(Mul(a, Add(S0, K)),
                  Add(Mul(Add(last.out, N(1)), Add(S0, K)), Add(A0, K)))
            /\ Le(A0, S0) => Ge(Add(last.out, N(1)), a)

\* a round trip that lost more than one unit
C8_Witness == RoundTrip /\ Lt(Add(last.out, N(1)), prev.call.arg)

\* the third call is a deposit of 1000 USDC into a vault that so far saw a
\* deposit of one unit and then a direct transfer of 10,000 USDC
InflationAttack ==
    /\ steps = 3
    /\ last.call.op = "deposit" /\ last.call.arg = Usdc(1000)
    /\ last.call.receiver # Zero
    /\ Succeeded(prev, "transfer") /\ prev.call.arg = Usdc(10000)
    /\ pre.totalShares = N(1)
    /\ pre.managedAssets = ZERO
    /\ pre.usdc[Vault] = Add(Usdc(10000), N(1))

\* C9: after an attacker's deposit of one unit into the empty vault and a
\* direct transfer of 10,000 USDC to it, a victim's deposit of 1000 USDC
\* succeeds, mints a non-zero amount of shares, and convertToAssets of the
\* minted shares is more than 99% of the deposit.
C9_InflationAttackResisted ==
    InflationAttack =>
        /\ last.ok
        /\ last.out # ZERO
        /\ convertToAssets(last.out) # PANIC
        /\ Gt(Mul(convertToAssets(last.out), N(100)), Mul(N(99), Usdc(1000)))

\* the victim's deposit went through
C9_Witness == InflationAttack /\ last.ok /\ shares[last.call.receiver] # ZERO

OwnerOnly == {"deployFunds", "returnFunds", "reportPnL"}

\* C10: deployFunds, returnFunds and reportPnL called by anyone but the
\* owner are rejected, whatever the argument, and leave managedAssets, the
\* pool balance, totalShares and all balances unchanged.
C10_NonOwnerRejected ==
    (last.call.op \in OwnerOnly /\ last.call.caller # Owner) =>
        /\ ~last.ok
        /\ last.err = "OwnableUnauthorizedAccount"
        /\ managedAssets = pre.managedAssets
        /\ usdc = pre.usdc
        /\ shares = pre.shares
        /\ totalShares = pre.totalShares

\* a holder who is not the owner asked to take back funds the owner had
\* deployed
C10_Witness ==
    /\ last.call.op = "returnFunds" /\ last.call.caller # Owner
    /\ last.call.arg # ZERO
    /\ Le(last.call.arg, managedAssets)

\* ------------------------------------------------------------------------
\* Calls made while another call is at its USDC transfer
\*
\* The vault and the curve take any token address as USDC.  A token that
\* notifies the parties of a transfer hands control to them in the middle of
\* the call: the sender of a transferFrom before the balances move, the
\* receiver of a transfer after they moved.  Whoever is notified can make
\* any call before the interrupted one goes on.
\* ------------------------------------------------------------------------

\* the call reaches its transfer, having entered the guards of contracts
Enter(call, contracts, out) ==
    /\ last' = [call |-> call, ok |-> TRUE, err |-> None, ea |-> <<>>, out |-> out]
    /\ Recorded
    /\ pre' = Snapshot
    /\ steps' = steps + 1
    /\ pending' = [call |-> call, at |-> steps + 1, out |-> out, saved |-> Snapshot]
    /\ entered' = entered \cup contracts

\* the interrupted call goes on to its end and returns
Leave(contracts) ==
    /\ last' = [call |-> pending.call, ok |-> TRUE, err |-> None, ea |-> <<>>,
                out |-> pending.out]
    /\ Recorded
    /\ pre' = Snapshot
    /\ steps' = steps + 1
    /\ pending' = Idle
    /\ entered' = entered \ contracts

\* the interrupted call reverts, and everything done since it began with it
Unwind(contracts, err) ==
    /\ last' = [call |-> pending.call, ok |-> FALSE, err |-> err, ea |-> <<>>, out |-> ZERO]
    /\ Recorded
    /\ pre' = Snapshot
    /\ steps' = steps + 1
    /\ pending' = Idle
    /\ entered' = entered \ contracts
    /\ usdc' = pending.saved.usdc
    /\ shares' = pending.saved.shares
    /\ totalShares' = pending.saved.totalShares
    /\ managedAssets' = pending.saved.managedAssets
    /\ tokens' = pending.saved.tokens
    /\ totalSupply' = pending.saved.totalSupply
    /\ reserveBalance' = pending.saved.reserveBalance

CanEnter == CanCall /\ pending.call.op = "none"

\* deposit up to USDC.safeTransferFrom: the shares are computed, nothing is
\* written yet
depositAtTransfer(caller, assets, receiver) ==
    /\ CanEnter
    /\ Vault \notin entered
    /\ assets # ZERO /\ receiver # Zero
    /\ \E sh \in {convertToShares(assets)} :
          /\ sh # PANIC /\ sh # ZERO
          /\ Enter(Call("deposit", caller, receiver, assets, FALSE), {Vault}, sh)
          /\ UNCHANGED <<usdc, vaultVars, curveVars>>

\* redeem up to the end of USDC.safeTransfer: the shares are burnt and the
\* assets have reached the receiver
redeemAtTransfer(caller, sh, receiver) ==
    /\ CanEnter
    /\ Vault \notin entered
    /\ sh # ZERO /\ receiver # Zero
    /\ \E assets \in {convertToAssets(sh)} :
          /\ assets # PANIC /\ assets # ZERO
          /\ Le(assets, availableLiquidity)
          /\ Ge(shares[caller], sh)
          /\ shares' = [shares EXCEPT ![caller] = Sub(@, sh)]
          /\ totalShares' = Sub(totalShares, sh)
          /\ usdc' = [a \in Accounts |->
                        IF a = Vault /\ a = receiver THEN usdc[a]
                        ELSE IF a = Vault THEN Sub(usdc[a], assets)
                        ELSE IF a = receiver THEN Add(usdc[a], assets)
                        ELSE usdc[a]]
          /\ Enter(Call("redeem", caller, receiver, sh, FALSE), {Vault}, assets)
          /\ UNCHANGED <<managedAssets, curveVars>>

\* deployFunds up to the end of USDC.safeTransfer: no guard is entered
deployFundsAtTransfer(caller, amount) ==
    /\ CanEnter
    /\ caller = Owner
    /\ amount # ZERO
    /\ Le(amount, availableLiquidity)
    /\ cAdd(managedAssets, amount) # PANIC
    /\ managedAssets' = Add(managedAssets, amount)
    /\ usdc' = [usdc EXCEPT ![Vault] = Sub(@, amount), ![caller] = Add(@, amount)]
    /\ Enter(Call("deployFunds", caller, None, amount, FALSE), {}, ZERO)
    /\ UNCHANGED <<shares, totalShares, curveVars>>

\* returnFunds up to USDC.safeTransferFrom: managedAssets is already
\* reduced, the funds have not arrived; no guard is entered
returnFundsAtTransfer(caller, amount) ==
    /\ CanEnter
    /\ caller = Owner
    /\ amount # ZERO
    /\ Le(amount, managedAssets)
    /\ managedAssets' = Sub(managedAssets, amount)
    /\ Enter(Call("returnFunds", caller, None, amount, FALSE), {}, ZERO)
    /\ UNCHANGED <<usdc, shares, totalShares, curveVars>>

\* the vault call that was at its transfer runs to its end
vaultAfterTransfer ==
    LET call == pending.call
    IN  /\ call.op \in {"deposit", "redeem", "deployFunds", "returnFunds"}
        /\ IF call.op \in {"redeem", "deployFunds"}
           THEN Leave({Vault}) /\ UNCHANGED <<usdc, vaultVars, curveVars>>
           ELSE IF Lt(usdc[call.caller], call.arg)
           THEN Unwind({Vault}, "ERC20InsufficientBalance")
           ELSE IF call.op = "returnFunds"
           THEN /\ usdc' = [usdc EXCEPT ![call.caller] = Sub(@, call.arg),
                                        ![Vault] = Add(@, call.arg)]
                /\ Leave({Vault})
                /\ UNCHANGED <<vaultVars, curveVars>>
           ELSE IF cAdd(totalShares, pending.out) = PANIC
           THEN Unwind({Vault}, "Panic")
           ELSE /\ usdc' = [usdc EXCEPT ![call.caller] = Sub(@, call.arg),
                                        ![Vault] = Add(@, call.arg)]
                /\ totalShares' = Add(totalShares, pending.out)
                /\ shares' = [shares EXCEPT ![call.receiver] = Add(@, pending.out)]
                /\ Leave({Vault})
                /\ UNCHANGED <<managedAssets, curveVars>>

\* the vault's calls, each also stopped at its transfer, where any vault
\* call can be made before it goes on
NextVaultNested ==
    \/ NextVault
    \/ \E caller \in {Alice, Owner} : depositAtTransfer(caller, Usdc(1000), caller)
    \/ \E caller \in {Alice, Bob} : redeemAtTransfer(caller, shares[caller], caller)
    \/ deployFundsAtTransfer(Owner, Usdc(500))
    \/ returnFundsAtTransfer(Owner, Usdc(500))
    \/ vaultAfterTransfer

SpecVaultNested == Init /\ [][NextVaultNested]_vars

VaultMutating == {"deposit", "redeem", "deployFunds", "returnFunds", "reportPnL"}

\* the last call was made while a call of one of ops was at its transfer
NestedIn(ops) == pending.call.op \in ops /\ steps > pending.at

\* C11: while a vault operation is in progress, its USDC transfer included,
\* a nested call into any mutating operation of the vault is rejected.
C11_NestedVaultCallRejected ==
    (NestedIn(VaultMutating) /\ last.call.op \in VaultMutating) => ~last.ok

\* buy up to usdc.safeTransferFrom: the tokens are computed, nothing is
\* written yet
buyAtTransfer(caller, usdcAmount) ==
    /\ CanEnter
    /\ Curve \notin entered
    /\ usdcAmount # ZERO
    /\ \E tokenAmount \in {_tokensForExactUsdc(usdcAmount)} :
          /\ tokenAmount # PANIC /\ tokenAmount # ZERO
          /\ Enter(Call("buy", caller, None, usdcAmount, FALSE), {Curve}, tokenAmount)
          /\ UNCHANGED <<usdc, vaultVars, curveVars>>

\* sell up to the end of usdc.safeTransfer: the tokens are burnt, the reserve
\* is reduced and the USDC has reached the seller
sellAtTransfer(caller, tokenAmount) ==
    /\ CanEnter
    /\ Curve \notin entered
    /\ tokenAmount # ZERO
    /\ Le(tokenAmount, tokens[caller])
    /\ \E usdcAmount \in {getSellReturn(tokenAmount)} :
          /\ usdcAmount # PANIC /\ usdcAmount # ZERO
          /\ Le(usdcAmount, reserveBalance)
          /\ Le(usdcAmount, usdc[Curve])
          /\ tokens' = [tokens EXCEPT ![caller] = Sub(@, tokenAmount)]
          /\ totalSupply' = Sub(totalSupply, tokenAmount)
          /\ reserveBalance' = Sub(reserveBalance, usdcAmount)
          /\ usdc' = [usdc EXCEPT ![Curve] = Sub(@, usdcAmount),
                                  ![caller] = Add(@, usdcAmount)]
          /\ Enter(Call("sell", caller, None, tokenAmount, FALSE), {Curve}, usdcAmount)
          /\ UNCHANGED vaultVars

\* the curve call that was at its transfer runs to its end
curveAfterTransfer ==
    LET call == pending.call
    IN  /\ call.op \in {"buy", "sell"}
        /\ IF call.op = "sell"
           THEN Leave({Curve}) /\ UNCHANGED <<usdc, vaultVars, curveVars>>
           ELSE IF Lt(usdc[call.caller], call.arg)
           THEN Unwind({Curve}, "ERC20InsufficientBalance")
           ELSE IF cAdd(reserveBalance, call.arg) = PANIC
                   \/ cAdd(totalSupply, pending.out) = PANIC
           THEN Unwind({Curve}, "Panic")
           ELSE /\ usdc' = [usdc EXCEPT ![call.caller] = Sub(@, call.arg),
                                        ![Curve] = Add(@, call.arg)]
                /\ reserveBalance' = Add(reserveBalance, call.arg)
                /\ totalSupply' = Add(totalSupply, pending.out)
                /\ tokens' = [tokens EXCEPT ![call.caller] = Add(@, pending.out)]
                /\ Leave({Curve})
                /\ UNCHANGED vaultVars

\* the curve's calls, each also stopped at its transfer, where buy and sell
\* can be called before it goes on
NextCurveNested ==
    \/ NextCurve
    \/ \E caller \in {Alice, Bob}, usdcAmount \in {N(12345), Usdc(1000)} :
          buyAtTransfer(caller, usdcAmount)
    \/ \E caller \in {Alice, Bob} : sellAtTransfer(caller, tokens[caller])
    \/ curveAfterTransfer

SpecCurveNested == Init /\ [][NextCurveNested]_vars

CurveMutating == {"buy", "sell"}

\* C12: while a buy or a sell of the curve is in progress, its USDC transfer
\* included, a nested call to buy or sell is rejected.
C12_NestedCurveCallRejected ==
    (NestedIn(CurveMutating) /\ last.call.op \in CurveMutating) =>
        /\ ~last.ok
        /\ usdc = pre.usdc /\ tokens = pre.tokens
        /\ totalSupply = pre.totalSupply /\ reserveBalance = pre.reserveBalance

\* the seller, holding the USDC of the sale that is still in progress, asked
\* to buy with it
C12_Witness ==
    /\ NestedIn({"sell"})
    /\ last.call.op = "buy" /\ last.call.caller = pending.call.caller
    /\ last.call.arg # ZERO
    /\ last.err = "ReentrancyGuardReentrantCall"

\* ------------------------------------------------------------------------
\* The price and the token counts along buys and sells (under SpecCurve)
\* ------------------------------------------------------------------------

\* getPrice() as it was before the last call
PreGetPrice == priceAt(pre.totalSupply)

\* the supply change that moves the integer price by at least one unit
PriceStep == Div(N(SCALE), N(SLOPE))

\* C13, as stated: getPrice() is strictly greater after every successful buy
\* than it was before it.
C13_PriceStrictlyIncreasesOnBuy ==
    Succeeded(last, "buy") => Gt(getPrice, PreGetPrice)

\* C13: after a successful buy getPrice() is never lower than before it, and
\* it is strictly greater whenever the buy minted at least SCALE / SLOPE raw
\* tokens.
C13_PriceIncreasesOnBuy ==
    Succeeded(last, "buy") =>
        /\ Ge(getPrice, PreGetPrice)
        /\ Ge(last.out, PriceStep) => Gt(getPrice, PreGetPrice)

\* a buy that raised the price
C13_Witness ==
    /\ Succeeded(last, "buy") /\ Ge(last.out, PriceStep)
    /\ Gt(getPrice, PreGetPrice)

\* C14, as stated: getPrice() is strictly lower after every successful sell
\* than it was before it.
C14_PriceStrictlyDecreasesOnSell ==
    Succeeded(last, "sell") => Lt(getPrice, PreGetPrice)

\* C14: after a successful sell getPrice() is never greater than before it,
\* and it is strictly lower whenever at least SCALE / SLOPE raw tokens were
\* sold.
C14_PriceDecreasesOnSell ==
    Succeeded(last, "sell") =>
        /\ Le(getPrice, PreGetPrice)
        /\ Ge(last.call.arg, PriceStep) => Lt(getPrice, PreGetPrice)

\* a sell that lowered the price
C14_Witness ==
    /\ Succeeded(last, "sell") /\ Ge(last.call.arg, PriceStep)
    /\ Lt(getPrice, PreGetPrice)

\* a buy by some caller followed at once by that caller's sell of the tokens
\* the buy minted, both successful
BuySellRoundTrip ==
    /\ Succeeded(prev, "buy") /\ Succeeded(last, "sell")
    /\ last.call.caller = prev.call.caller
    /\ last.call.arg = prev.out

\* C15: whenever a buy with x USDC succeeds and the tokens it minted are sold
\* at once, the sell returns at most x.
C15_BuySellNeverProfits == BuySellRoundTrip => Le(last.out, prev.call.arg)

\* a round trip on a curve that had supply before the buy
C15_Witness ==
    /\ BuySellRoundTrip
    /\ totalSupply # ZERO
    /\ Le(last.out, prev.call.arg)

\* ------------------------------------------------------------------------
\* Buying and selling back at once, over a range of amounts
\* ------------------------------------------------------------------------

\* the range of the round trip: 0.01 USDC to 100k USDC
MinRoundTrip == N(10000)
MaxRoundTrip == Usdc(100000)

\* amounts over the range, its two ends included, and some below it
RoundTripAmounts ==
    {N(1), N(2), N(10), N(9999), MinRoundTrip, N(10001), N(12345),
     Usdc(1), Usdc(1000), Usdc(31337), MaxRoundTrip}

\* alice buys, or sells what her buy has just minted
NextRoundTrip ==
    \/ \E usdcAmount \in RoundTripAmounts : buy(Alice, usdcAmount)
    \/ sell(Alice, SellAmount(Alice, "minted"))

SpecRoundTrip == Init /\ [][NextRoundTrip]_vars

\* a round trip that started on a curve without supply, with an amount of the
\* range
RoundTripFromZeroSupply ==
    /\ BuySellRoundTrip
    /\ totalSupply = ZERO
    /\ Ge(prev.call.arg, MinRoundTrip) /\ Le(prev.call.arg, MaxRoundTrip)

\* C16: on a curve without supply, for every x from 10,000 to 100,000e6 raw
\* units, buying with x and selling the minted tokens at once returns more
\* than 95% of x.
C16_RoundTripReturnsOver95Percent ==
    RoundTripFromZeroSupply =>
        Gt(Mul(N(100), last.out), Mul(N(95), prev.call.arg))

\* the round trip at both ends of the range
C16_Witness ==
    /\ RoundTripFromZeroSupply
    /\ prev.call.arg \in {MinRoundTrip, MaxRoundTrip}
    /\ Gt(Mul(N(100), last.out), Mul(N(95), prev.call.arg))

\* ------------------------------------------------------------------------
\* Two equal buys in a row (under SpecCurve)
\* ------------------------------------------------------------------------

\* two successful buys of the same amount by two different callers, one
\* right after the other
TwoEqualBuys ==
    /\ Succeeded(prev, "buy") /\ Succeeded(last, "buy")
    /\ last.call.caller # prev.call.caller
    /\ last.call.arg = prev.call.arg

\* C17, as stated: of two equal buys in a row by different callers, the
\* second mints strictly fewer tokens than the first.
C17_SecondBuyMintsStrictlyFewer == TwoEqualBuys => Lt(last.out, prev.out)

\* the two minted counts are large enough against the supply for the
\* difference of the two real-valued solutions to reach one raw token
MintsFarApart ==
    Gt(Mul(prev.out, last.out),
       Add(totalSupply, Div(Mul(N(SCALE), N(BASE_PRICE)), N(SLOPE))))

\* C17: of two equal buys in a row by different callers, the second never
\* mints more tokens than the first, and it mints strictly fewer whenever the
\* product of the two minted counts exceeds
\* totalSupply + SCALE * BASE_PRICE / SLOPE (totalSupply after the second buy).
C17_SecondBuyMintsNoMore ==
    TwoEqualBuys =>
        /\ Le(last.out, prev.out)
        /\ MintsFarApart => Lt(last.out, prev.out)

\* two equal buys on a curve that had supply before them, the second minting
\* strictly fewer tokens
C17_Witness ==
    /\ TwoEqualBuys /\ MintsFarApart
    /\ Lt(Add(prev.out, last.out), totalSupply)
    /\ Lt(last.out, prev.out)

\* ------------------------------------------------------------------------
\* The view functions of the curve, called between buys and sells
\* ------------------------------------------------------------------------

ONE_TOKEN == N(1000000)

\* the views are called within the first MaxViewSteps calls
MaxViewSteps == 2
CanView == CanCall /\ steps < MaxViewSteps

\* a call of getPrice()
callGetPrice(caller) ==
    /\ CanView
    /\ \E price \in {getPrice} :
          IF price = PANIC
          THEN Revert(Call("getPrice", caller, None, ZERO, FALSE), "Panic", <<>>)
          ELSE Return(Call("getPrice", caller, None, ZERO, FALSE), price)
    /\ UNCHANGED <<usdc, vaultVars, curveVars>>

\* a call of getBuyCost(tokenAmount)
callGetBuyCost(caller, tokenAmount) ==
    /\ CanView
    /\ \E cost \in {getBuyCost(tokenAmount)} :
          IF cost = PANIC
          THEN Revert(Call("getBuyCost", caller, None, tokenAmount, FALSE), "Panic", <<>>)
          ELSE Return(Call("getBuyCost", caller, None, tokenAmount, FALSE), cost)
    /\ UNCHANGED <<usdc, vaultVars, curveVars>>

\* a getSellReturn that quotes the cost of buying the tokens instead
callGetSellReturnQuotingBuy(caller, tokenAmount) ==
    /\ CanView
    /\ IF tokenAmount # ZERO /\ Gt(tokenAmount, totalSupply)
       THEN Revert(Call("getSellReturn", caller, None, tokenAmount, FALSE),
                   "InsufficientTokens", <<tokenAmount, totalSupply>>)
       ELSE \E usdcAmount \in {getBuyCost(tokenAmount)} :
               IF usdcAmount = PANIC
               THEN Revert(Call("getSellReturn", caller, None, tokenAmount, FALSE),
                           "Panic", <<>>)
               ELSE Return(Call("getSellReturn", caller, None, tokenAmount, FALSE),
                           usdcAmount)
    /\ UNCHANGED <<usdc, vaultVars, curveVars>>

\* a call of getSellReturn(tokenAmount)
callGetSellReturn(caller, tokenAmount) ==
    /\ CanView
    /\ IF tokenAmount # ZERO /\ Gt(tokenAmount, totalSupply)
       THEN Revert(Call("getSellReturn", caller, None, tokenAmount, FALSE),
                   "InsufficientTokens", <<tokenAmount, totalSupply>>)
       ELSE \E usdcAmount \in {getSellReturn(tokenAmount)} :
               IF usdcAmount = PANIC
               THEN Revert(Call("getSellReturn", caller, None, tokenAmount, FALSE),
                           "Panic", <<>>)
               ELSE Return(Call("getSellReturn", caller, None, tokenAmount, FALSE),
                           usdcAmount)
    /\ UNCHANGED <<usdc, vaultVars, curveVars>>

\* the amounts bought before the views are called
ViewBuyAmounts == {N(1), N(15000), Usdc(1), Usdc(1000)}

\* the token amounts the views are asked about
ViewAmounts == {ZERO, N(1), N(99), N(12345), ONE_TOKEN, Usdc(1000), MAX_UINT256}

NextCurveViews ==
    \/ \E usdcAmount \in ViewBuyAmounts : buy(Alice, usdcAmount)
    \/ \E which \in {"one", "half", "all"} : sell(Alice, SellAmount(Alice, which))
    \/ callGetPrice(Alice)
    \/ \E tokenAmount \in ViewAmounts : callGetBuyCost(Alice, tokenAmount)
    \/ \E usdcAmount \in ViewBuyAmounts :
          callGetBuyCost(Alice, _tokensForExactUsdc(usdcAmount))
    \/ \E tokenAmount \in ViewAmounts : callGetSellReturn(Alice, tokenAmount)
    \/ \E which \in {"half", "all"} :
          callGetSellReturn(Alice, SellAmount(Alice, which))

SpecCurveViews == Init /\ [][NextCurveViews]_vars

\* the floor of the real-valued integral of the price from s0 to s1:
\* BASE_PRICE * (s1 - s0) / SCALE + SLOPE * (s1^2 - s0^2) / (2 * SCALE^2),
\* divided once
FloorOfExactIntegral(s0, s1) ==
    Div(Sub(TwiceScaledIntegral(s1), TwiceScaledIntegral(s0)),
        Mul(N(2), Mul(N(SCALE), N(SCALE))))

\* C18: the cost that getBuyCost, getSellReturn and sell use for moving the
\* supply from s0 to s1 is the floor of the real-valued integral
\* BASE_PRICE * (s1 - s0) / SCALE + SLOPE * (s1^2 - s0^2) / (2 * SCALE^2).
C18_CostIsFloorOfExactIntegral ==
    /\ Succeeded(last, "getBuyCost") =>
          Cmp(last.out, FloorOfExactIntegral(totalSupply,
                                             Add(totalSupply, last.call.arg))) = 0
    /\ Succeeded(last, "getSellReturn") =>
          Cmp(last.out, FloorOfExactIntegral(Sub(totalSupply, last.call.arg),
                                             totalSupply)) = 0
    /\ Succeeded(last, "sell") =>
          Cmp(last.out, FloorOfExactIntegral(totalSupply, pre.totalSupply)) = 0

QuotedBuy ==
    /\ Succeeded(prev, "getBuyCost") /\ Succeeded(last, "buy")
    /\ prev.call.arg = last.out

\* C20, as stated: for every successful buy(x) minting t tokens, getBuyCost(t)
\* evaluated just before the call equals x.
C20_BuyCostEqualsPaid == QuotedBuy => Cmp(prev.out, last.call.arg) = 0

\* C20: for every successful buy(x) minting t tokens, getBuyCost(t) evaluated
\* just before the call is at most x.
C20_BuyCostAtMostPaid == QuotedBuy => Le(prev.out, last.call.arg)

\* a buy on a curve with supply that paid more than the quote of its tokens
C20_Witness ==
    /\ QuotedBuy
    /\ Gt(totalSupply, last.out)
    /\ Lt(prev.out, last.call.arg)

\* getSellReturn(n) was called and right after it a sell of n succeeded
QuotedSell ==
    /\ Succeeded(prev, "getSellReturn") /\ Succeeded(last, "sell")
    /\ prev.call.arg = last.call.arg

\* C21: for every successful sell(n), the amount paid to the seller and the
\* amount taken off reserveBalance both equal getSellReturn(n) evaluated just
\* before the call.
C21_SellPaysWhatGetSellReturnQuoted ==
    QuotedSell =>
        /\ last.out = prev.out
        /\ reserveBalance = Sub(pre.reserveBalance, prev.out)
        /\ usdc[last.call.caller] = Add(pre.usdc[last.call.caller], prev.out)
        /\ usdc[Curve] = Sub(pre.usdc[Curve], prev.out)

\* a quoted sale of a part of the supply that paid something
C21_Witness ==
    /\ QuotedSell
    /\ totalSupply # ZERO
    /\ Gt(last.call.arg, N(1))
    /\ Gt(usdc[last.call.caller], pre.usdc[last.call.caller])

\* ------------------------------------------------------------------------
\* Rejected calls of the curve (under SpecCurve)
\* ------------------------------------------------------------------------

\* the last call left the curve and every balance as they were
CurveUnchanged ==
    /\ totalSupply = pre.totalSupply /\ reserveBalance = pre.reserveBalance
    /\ tokens = pre.tokens /\ usdc = pre.usdc

RejectedWith(err) == ~last.ok /\ last.err = err /\ CurveUnchanged

\* C22: buy(0), sell(0), a buy whose computed token amount is zero and a sell
\* of more tokens than the caller holds are rejected, the first three with
\* ZeroAmount and the last with InsufficientTokens(requested, callerBalance),
\* and leave totalSupply, reserveBalance, every token balance and every USDC
\* balance unchanged.
C22_RejectedCurveCallsChangeNothing ==
    /\ (last.call.op \in {"buy", "sell"} /\ last.call.arg = ZERO) =>
          RejectedWith("ZeroAmount")
    /\ (/\ last.call.op = "buy" /\ last.call.arg # ZERO
        /\ totalSupply = pre.totalSupply
        /\ _tokensForExactUsdc(last.call.arg) = ZERO) =>
          RejectedWith("ZeroAmount")
    /\ (/\ last.call.op = "sell" /\ last.call.arg # ZERO
        /\ Gt(last.call.arg, pre.tokens[last.call.caller])) =>
          /\ RejectedWith("InsufficientTokens")
          /\ last.ea = <<last.call.arg, pre.tokens[last.call.caller]>>

\* a buy with an amount too small to mint a token at the price reached
C22_Witness ==
    /\ last.call.op = "buy" /\ last.call.arg # ZERO
    /\ totalSupply # ZERO
    /\ RejectedWith("ZeroAmount")

\* ------------------------------------------------------------------------
\* Back to the initial state of the curve (under SpecRoundTrip)
\* ------------------------------------------------------------------------

\* a buy succeeded on a curve without supply and the buyer then asked to sell
\* all it had minted
FullSellAfterFirstBuy ==
    /\ Succeeded(prev, "buy") /\ last.call.op = "sell"
    /\ last.call.caller = prev.call.caller
    /\ last.call.arg = prev.out
    /\ pre.totalSupply = prev.out

\* C23, as stated: for every x for which buy(x) succeeds on a curve without
\* supply, the buyer's sell of all the minted tokens succeeds and leaves
\* totalSupply = 0 and getPrice() = BASE_PRICE.
C23_FullSellAlwaysSucceeds ==
    FullSellAfterFirstBuy =>
        /\ last.ok
        /\ totalSupply = ZERO
        /\ getPrice = N(BASE_PRICE)

\* the least token amount whose linear cost is a raw unit of USDC
MinSellable == Div(N(SCALE), N(BASE_PRICE))

\* C23: for every x for which buy(x) succeeds on a curve without supply and
\* mints at least SCALE / BASE_PRICE raw tokens, the buyer's sell of all the
\* minted tokens succeeds and leaves totalSupply = 0 and
\* getPrice() = BASE_PRICE; when it minted fewer, that sell is rejected with
\* ZeroAmount and changes nothing.
C23_FullSellReturnsToStart ==
    FullSellAfterFirstBuy =>
        IF Ge(prev.out, MinSellable)
        THEN /\ last.ok
             /\ totalSupply = ZERO
             /\ getPrice = N(BASE_PRICE)
        ELSE RejectedWith("ZeroAmount")

\* the curve is back at no supply and the base price after a round trip
C23_Witness ==
    /\ FullSellAfterFirstBuy /\ last.ok
    /\ totalSupply = ZERO /\ getPrice = N(BASE_PRICE)
    /\ tokens[last.call.caller] = ZERO

\* ------------------------------------------------------------------------
\* Rejected and successful calls of the vault, one by one (under SpecVault)
\* ------------------------------------------------------------------------

\* the last call left the vault and every balance as they were
VaultUnchanged ==
    /\ usdc = pre.usdc /\ managedAssets = pre.managedAssets
    /\ totalShares = pre.totalShares /\ shares = pre.shares

VaultRejectedWith(err) == ~last.ok /\ last.err = err /\ VaultUnchanged

\* floor(assets * (totalShares + K) / (totalAssets + K)) on the state before
\* the last call
PreShares(assets) ==
    mulDiv(assets, cAdd(pre.totalShares, K), cAdd(PreTotalAssets, K))

\* C24: deposit is rejected with ZeroAmount when assets is 0, else with
\* ZeroAddress when the receiver is the zero address, else with ZeroAmount
\* when floor(assets * (totalShares + K) / (totalAssets + K)) is 0; the pool
\* balance, managedAssets, totalShares and all share balances are unchanged.
C24_DepositRejections ==
    last.call.op = "deposit" =>
        IF last.call.arg = ZERO THEN VaultRejectedWith("ZeroAmount")
        ELSE IF last.call.receiver = Zero THEN VaultRejectedWith("ZeroAddress")
        ELSE PreShares(last.call.arg) = ZERO => VaultRejectedWith("ZeroAmount")

\* a deposit too small to be worth a share at the exchange rate reached
C24_Witness ==
    /\ last.call.op = "deposit"
    /\ last.call.arg # ZERO /\ last.call.receiver # Zero
    /\ PreShares(last.call.arg) = ZERO
    /\ VaultRejectedWith("ZeroAmount")

\* floor(shares * (totalAssets + K) / (totalShares + K)) on the state before
\* the last call
PreAssets(sh) ==
    mulDiv(sh, cAdd(PreTotalAssets, K), cAdd(pre.totalShares, K))

\* a redeem that passed the checks on its arguments and on the assets computed
RedeemReachedLiquidityCheck ==
    /\ last.call.op = "redeem"
    /\ last.call.arg # ZERO /\ last.call.receiver # Zero
    /\ PreAssets(last.call.arg) # PANIC /\ PreAssets(last.call.arg) # ZERO

\* C25: a redeem whose computed assets exceed the pool balance fails with
\* InsufficientLiquidity(assets, poolBalance), burning no shares and paying
\* nothing; a redeem of shares the caller holds whose computed assets are
\* within the pool balance succeeds and pays them, funds being deployed or not.
C25_RedeemLiquidity ==
    RedeemReachedLiquidityCheck =>
        IF Gt(PreAssets(last.call.arg), pre.usdc[Vault])
        THEN /\ VaultRejectedWith("InsufficientLiquidity")
             /\ last.ea = <<PreAssets(last.call.arg), pre.usdc[Vault]>>
        ELSE Le(last.call.arg, pre.shares[last.call.caller]) =>
                /\ last.ok
                /\ last.out = PreAssets(last.call.arg)
                /\ totalShares = Sub(pre.totalShares, last.call.arg)

\* with funds deployed, a redeem of all the caller's shares was rejected for
\* want of liquidity
C25_Witness ==
    /\ RedeemReachedLiquidityCheck
    /\ managedAssets # ZERO
    /\ Le(last.call.arg, shares[last.call.caller])
    /\ Le(PreAssets(last.call.arg), totalAssets)
    /\ VaultRejectedWith("InsufficientLiquidity")

\* with funds deployed, a redeem within the pool balance went through
RedeemNotBlocked ==
    /\ RedeemReachedLiquidityCheck
    /\ pre.managedAssets # ZERO
    /\ last.ok /\ last.call.receiver # Vault

\* what the owner's reports of profit can have made of managedAssets: the
\* most one report can add, and the most two reports can add
FundedManaged == {INT256_MAX, Add(INT256_MAX, INT256_MAX)}

\* the vault after alice's first deposit of 1000 USDC, which mints as many
\* shares, and after the owner's reports of profit; the records of the calls
\* start afresh
InitFunded ==
    /\ usdc = [a \in Accounts |->
                 IF a = Vault THEN Usdc(1000)
                 ELSE IF a = Alice THEN Sub(InitialBalance, Usdc(1000))
                 ELSE IF a \in Users THEN InitialBalance ELSE ZERO]
    /\ shares = [a \in Accounts |-> IF a = Alice THEN Usdc(1000) ELSE ZERO]
    /\ totalShares = Usdc(1000)
    /\ managedAssets \in FundedManaged
    /\ tokens = [a \in Accounts |-> ZERO]
    /\ totalSupply = ZERO
    /\ reserveBalance = ZERO
    /\ last = [call |-> Call("constructor", None, None, ZERO, FALSE),
               ok |-> TRUE, err |-> None, ea |-> <<>>, out |-> ZERO]
    /\ prev = last
    /\ prev2 = last
    /\ BotAtRest
    /\ pre = Snapshot
    /\ entered = {}
    /\ pending = Idle
    /\ steps = 0

\* the calls of the owner, and alice's deposits and redeems
NextVaultFunded ==
    \/ \E assets \in {N(1), Usdc(1000)} : deposit(Alice, assets, Alice)
    \/ \E which \in {"one", "all"} : redeem(Alice, RedeemAmount(Alice, which), Alice)
    \/ \E amount \in OwnerAmounts : deployFunds(Owner, amount)
    \/ \E amount \in OwnerAmounts : returnFunds(Owner, amount)
    \/ \E neg \in BOOLEAN : \E mag \in PnLMagnitudes(neg) : reportPnL(Owner, neg, mag)

SpecVaultFunded == InitFunded /\ [][NextVaultFunded]_vars

\* C26, as stated: deployFunds(amount) by the owner fails with ZeroAmount when
\* amount is 0 and with InsufficientLiquidity(amount, poolBalance) when amount
\* exceeds the pool balance, changing nothing; otherwise it increases
\* managedAssets by amount and transfers exactly amount from the pool to the
\* owner.
C26_DeployFundsAlwaysGoesThrough ==
    (last.call.op = "deployFunds" /\ last.call.caller = Owner) =>
        IF last.call.arg = ZERO THEN VaultRejectedWith("ZeroAmount")
        ELSE IF Gt(last.call.arg, pre.usdc[Vault])
        THEN /\ VaultRejectedWith("InsufficientLiquidity")
             /\ last.ea = <<last.call.arg, pre.usdc[Vault]>>
        ELSE /\ last.ok
             /\ managedAssets = Add(pre.managedAssets, last.call.arg)
             /\ usdc[Vault] = Sub(pre.usdc[Vault], last.call.arg)
             /\ usdc[Owner] = Add(pre.usdc[Owner], last.call.arg)

\* C26: deployFunds(amount) by the owner fails with ZeroAmount when amount is
\* 0, with InsufficientLiquidity(amount, poolBalance) when amount exceeds the
\* pool balance, and with an arithmetic panic when managedAssets + amount
\* does not fit 256 bits, changing nothing; otherwise it increases
\* managedAssets by amount and transfers exactly amount from the pool to the
\* owner.
C26_DeployFundsOutcomes ==
    (last.call.op = "deployFunds" /\ last.call.caller = Owner) =>
        IF last.call.arg = ZERO THEN VaultRejectedWith("ZeroAmount")
        ELSE IF Gt(last.call.arg, pre.usdc[Vault])
        THEN /\ VaultRejectedWith("InsufficientLiquidity")
             /\ last.ea = <<last.call.arg, pre.usdc[Vault]>>
        ELSE IF cAdd(pre.managedAssets, last.call.arg) = PANIC
        THEN VaultRejectedWith("Panic")
        ELSE /\ last.ok
             /\ managedAssets = Add(pre.managedAssets, last.call.arg)
             /\ usdc[Vault] = Sub(pre.usdc[Vault], last.call.arg)
             /\ usdc[Owner] = Add(pre.usdc[Owner], last.call.arg)
             /\ \A a \in Accounts \ {Vault, Owner} : usdc[a] = pre.usdc[a]
             /\ totalShares = pre.totalShares /\ shares = pre.shares

\* the owner took a part of the pool
C26_Witness ==
    /\ Succeeded(last, "deployFunds")
    /\ usdc[Vault] # ZERO
    /\ managedAssets = Add(pre.managedAssets, last.call.arg)
    /\ usdc[Owner] = Add(pre.usdc[Owner], last.call.arg)

\* ------------------------------------------------------------------------
\* The view functions of the vault, called between its other calls
\* ------------------------------------------------------------------------

\* 10 ** _DECIMALS
ONE_SHARE == N(1000000)

sharePrice == convertToAssets(ONE_SHARE)

\* a call of convertToShares(assets)
callConvertToShares(caller, assets) ==
    /\ CanView
    /\ \E sh \in {convertToShares(assets)} :
          IF sh = PANIC
          THEN Revert(Call("convertToShares", caller, None, assets, FALSE), "Panic", <<>>)
          ELSE Return(Call("convertToShares", caller, None, assets, FALSE), sh)
    /\ UNCHANGED <<usdc, vaultVars, curveVars>>

\* a call of convertToAssets(shares)
callConvertToAssets(caller, sh) ==
    /\ CanView
    /\ \E assets \in {convertToAssets(sh)} :
          IF assets = PANIC
          THEN Revert(Call("convertToAssets", caller, None, sh, FALSE), "Panic", <<>>)
          ELSE Return(Call("convertToAssets", caller, None, sh, FALSE), assets)
    /\ UNCHANGED <<usdc, vaultVars, curveVars>>

\* a call of sharePrice()
callSharePrice(caller) ==
    /\ CanView
    /\ \E price \in {sharePrice} :
          IF price = PANIC
          THEN Revert(Call("sharePrice", caller, None, ZERO, FALSE), "Panic", <<>>)
          ELSE Return(Call("sharePrice", caller, None, ZERO, FALSE), price)
    /\ UNCHANGED <<usdc, vaultVars, curveVars>>

\* the amounts the conversions are asked about
ConvertAmounts == {N(1), N(999), ONE_SHARE, Usdc(1000), INT256_MAX, MAX_UINT256}

NextVaultViews ==
    \/ NextVaultFunded
    \/ \E amount \in DonationAmounts : transfer(Bob, amount)
    \/ \E assets \in ConvertAmounts : callConvertToShares(Alice, assets)
    \/ \E sh \in ConvertAmounts : callConvertToAssets(Alice, sh)
    \/ callSharePrice(Alice)

SpecVaultViews == Init /\ [][NextVaultViews]_vars

\* no shares exist and the vault controls no assets
EmptyVault == totalShares = ZERO /\ totalAssets = ZERO

\* C27: on an empty vault (totalShares = 0, totalAssets = 0) convertToShares(a)
\* is a and convertToAssets(a) is a for every a > 0, and sharePrice() is 1e6.
C27_EmptyVaultOneToOne ==
    EmptyVault =>
        /\ (Succeeded(last, "convertToShares") /\ last.call.arg # ZERO) =>
              last.out = last.call.arg
        /\ (Succeeded(last, "convertToAssets") /\ last.call.arg # ZERO) =>
              last.out = last.call.arg
        /\ Succeeded(last, "sharePrice") => last.out = N(1000000)
        /\ last.call.op \in {"convertToShares", "convertToAssets", "sharePrice"} =>
              last.ok

\* the largest amount converted at 1:1 on the empty vault
C27_Witness ==
    /\ EmptyVault
    /\ Succeeded(last, "convertToAssets")
    /\ last.call.arg = MAX_UINT256 /\ last.out = MAX_UINT256

\* ------------------------------------------------------------------------
\* The share price along reports of profit and loss (under SpecVaultViews)
\* ------------------------------------------------------------------------

\* a reportPnL of a non-zero amount succeeded on a vault with shares, and
\* sharePrice() can be computed before and after it
ReportedWithShares(neg) ==
    /\ Succeeded(last, "reportPnL") /\ last.call.neg = neg
    /\ last.call.arg # ZERO
    /\ pre.totalShares # ZERO
    /\ PreAssets(ONE_SHARE) # PANIC /\ sharePrice # PANIC

\* C28, as stated: after a successful reportPnL of a positive amount
\* sharePrice() is strictly greater than before, and after one of a negative
\* amount it is strictly smaller, in every state with outstanding shares.
C28_SharePriceStrictlyMoves ==
    /\ ReportedWithShares(FALSE) => Gt(sharePrice, PreAssets(ONE_SHARE))
    /\ ReportedWithShares(TRUE) => Lt(sharePrice, PreAssets(ONE_SHARE))

\* the reported amount is worth at least one raw unit per share of 1e6
MovesThePrice ==
    Ge(Mul(last.call.arg, ONE_SHARE), Add(pre.totalShares, K))

\* C28: in every state with outstanding shares, after a successful reportPnL
\* of a positive amount sharePrice() is never smaller than before, and after
\* one of a negative amount never greater; it is strictly greater, or
\* strictly smaller, whenever amount * 1e6 >= totalShares + K.
C28_SharePriceMoves ==
    /\ ReportedWithShares(FALSE) =>
          /\ Ge(sharePrice, PreAssets(ONE_SHARE))
          /\ MovesThePrice => Gt(sharePrice, PreAssets(ONE_SHARE))
    /\ ReportedWithShares(TRUE) =>
          /\ Le(sharePrice, PreAssets(ONE_SHARE))
          /\ MovesThePrice => Lt(sharePrice, PreAssets(ONE_SHARE))

\* a reported loss lowered the share price
C28_Witness ==
    /\ ReportedWithShares(TRUE) /\ MovesThePrice
    /\ Lt(sharePrice, PreAssets(ONE_SHARE))

\* ------------------------------------------------------------------------
\* The reserve of the curve along its calls (under SpecCurveViews)
\* ------------------------------------------------------------------------

\* C29: every successful buy(x) increases reserveBalance by exactly x, every
\* successful sell decreases it by exactly the amount returned to the seller,
\* and no other call, rejected ones and views included, changes it.
C29_ReserveTracksFlows ==
    IF Succeeded(last, "buy")
    THEN /\ reserveBalance = Add(pre.reserveBalance, last.call.arg)
         /\ usdc[Curve] = Add(pre.usdc[Curve], last.call.arg)
    ELSE IF Succeeded(last, "sell")
    THEN /\ reserveBalance = Sub(pre.reserveBalance, last.out)
         /\ usdc[last.call.caller] = Add(pre.usdc[last.call.caller], last.out)
         /\ usdc[Curve] = Sub(pre.usdc[Curve], last.out)
    ELSE reserveBalance = pre.reserveBalance

\* a sale on a curve whose reserve had grown by two buys
C29_Witness ==
    /\ Succeeded(last, "sell") /\ Succeeded(prev, "buy")
    /\ Gt(pre.reserveBalance, prev.call.arg)
    /\ reserveBalance = Sub(pre.reserveBalance, last.out)
    /\ last.out # ZERO

\* ------------------------------------------------------------------------
\* What a successful deposit does (under SpecVault)
\* ------------------------------------------------------------------------

\* C30: a successful deposit(assets, receiver) mints exactly
\* floor(assets * (totalShares + K) / (totalAssets + K)) shares to receiver,
\* computed on the state before the USDC transfer, increases the pool balance
\* by exactly assets taken from the caller, and leaves managedAssets and
\* every other holder's shares unchanged.
C30_DepositMintsFloorShares ==
    Succeeded(last, "deposit") =>
        /\ last.out = PreShares(last.call.arg)
        /\ shares[last.call.receiver] = Add(pre.shares[last.call.receiver], last.out)
        /\ \A a \in Accounts \ {last.call.receiver} : shares[a] = pre.shares[a]
        /\ totalShares = Add(pre.totalShares, last.out)
        /\ usdc[Vault] = Add(pre.usdc[Vault], last.call.arg)
        /\ usdc[last.call.caller] = Sub(pre.usdc[last.call.caller], last.call.arg)
        /\ \A a \in Accounts \ {Vault, last.call.caller} : usdc[a] = pre.usdc[a]
        /\ managedAssets = pre.managedAssets

\* a deposit for another holder at an exchange rate that is not 1:1
C30_Witness ==
    /\ Succeeded(last, "deposit")
    /\ last.call.receiver # last.call.caller
    /\ last.out # last.call.arg
    /\ last.out = PreShares(last.call.arg)

\* ------------------------------------------------------------------------
\* The tokens a buy mints against the exact cost (under SpecCurve)
\* ------------------------------------------------------------------------

\* 2 * SCALE^2 times the exact cost of moving the supply from s0 to s0 + t is
\* at most 2 * SCALE^2 times usdcAmount
ExactCostWithin(s0, t, usdcAmount) ==
    Le(Sub(TwiceScaledIntegral(Add(s0, t)), TwiceScaledIntegral(s0)),
       Mul(Mul(N(2), Mul(N(SCALE), N(SCALE))), usdcAmount))

\* C31: the amount t a buy(usdcAmount) mints is the greatest integer for which
\* the exact, untruncated cost of moving the supply from s0 to s0 + t is at
\* most usdcAmount; a buy rejected because it would mint nothing is one whose
\* usdcAmount does not cover the exact cost of a single raw token.
C31_BuyMintsFloorOfSolution ==
    /\ Succeeded(last, "buy") =>
          /\ totalSupply = Add(pre.totalSupply, last.out)
          /\ ExactCostWithin(pre.totalSupply, last.out, last.call.arg)
          /\ ~ExactCostWithin(pre.totalSupply, Add(last.out, N(1)), last.call.arg)
    /\ (last.call.op = "buy" /\ last.call.arg # ZERO /\ last.err = "ZeroAmount") =>
          ~ExactCostWithin(pre.totalSupply, N(1), last.call.arg)

\* a buy on a curve with supply whose amount is not used up by the exact cost
\* of the tokens minted
C31_Witness ==
    /\ Succeeded(last, "buy")
    /\ pre.totalSupply # ZERO
    /\ ExactCostWithin(pre.totalSupply, last.out, Sub(last.call.arg, N(1)))
    /\ ~ExactCostWithin(pre.totalSupply, Add(last.out, N(1)), last.call.arg)

\* ------------------------------------------------------------------------
\* What reportPnL changes (under SpecVault)
\* ------------------------------------------------------------------------

\* C32: a successful reportPnL(amount) sets managedAssets to
\* managedAssets + amount and leaves the pool balance, totalShares and every
\* share balance unchanged; reportPnL(0) by the owner succeeds and changes
\* nothing.
C32_ReportPnLChangesOnlyManaged ==
    /\ Succeeded(last, "reportPnL") =>
          /\ managedAssets = IF last.call.neg
                             THEN Sub(pre.managedAssets, last.call.arg)
                             ELSE Add(pre.managedAssets, last.call.arg)
          /\ last.call.neg => Ge(pre.managedAssets, last.call.arg)
          /\ usdc = pre.usdc
          /\ totalShares = pre.totalShares /\ shares = pre.shares
    /\ (/\ last.call.op = "reportPnL" /\ last.call.caller = Owner
        /\ last.call.arg = ZERO) =>
          last.ok /\ VaultUnchanged

\* a loss reported on a vault with shares and deployed funds
C32_Witness ==
    /\ Succeeded(last, "reportPnL") /\ last.call.neg
    /\ last.call.arg # ZERO
    /\ totalShares # ZERO
    /\ managedAssets = Sub(pre.managedAssets, last.call.arg)

\* ------------------------------------------------------------------------
\* The early buyer (under SpecCurve)

\* A bought, then another caller bought, and now A has asked to sell the
\* tokens A's buy minted
EarlyBuyerSells ==
    /\ last.call.op = "sell"
    /\ Succeeded(prev, "buy")
    /\ Succeeded(prev2, "buy")
    /\ prev.call.caller # prev2.call.caller
    /\ last.call.caller = prev2.call.caller
    /\ last.call.arg = prev2.out

\* the real-valued integral of the price over the tokens sold is at least
\* two smallest units above what A paid: the two roundings down of
\* _integralCost take less than two units together
RiseCoversRounding ==
    Ge(Sub(TwiceScaledIntegral(pre.totalSupply),
           TwiceScaledIntegral(Sub(pre.totalSupply, last.call.arg))),
       Mul(Mul(N(2), Mul(N(SCALE), N(SCALE))), Add(prev2.call.arg, N(2))))

\* C33, as stated: if caller A buys with x, then a different caller B buys,
\* and then A sells all the tokens A's buy minted, A receives strictly more
\* than x.
C33_EarlyBuyerAlwaysGains ==
    EarlyBuyerSells => last.ok /\ Gt(last.out, prev2.call.arg)

\* C33, amended: if caller A buys with x, then a different caller B buys,
\* and then A sells all the tokens A's buy minted, the sale succeeds and A
\* receives strictly more than x whenever B's buy has raised the price
\* integral over A's tokens to at least x + 2 smallest units; after a small
\* buy by B the sale can return x or less, or be rejected with ZeroAmount.
C33_EarlyBuyerGains ==
    (EarlyBuyerSells /\ RiseCoversRounding) => last.ok /\ Gt(last.out, prev2.call.arg)

C33_Witness ==
    /\ EarlyBuyerSells
    /\ RiseCoversRounding
    /\ last.ok
    /\ Gt(last.out, prev2.call.arg)
    /\ prev2.call.arg = Usdc(1000)

\* ------------------------------------------------------------------------
\* The reserve covers every sale (under SpecCurve)

\* amounts that caller holds and can ask to sell: one, half or all of them
Sellable(caller) ==
    {n \in {N(1), DivSmall(tokens[caller], 2), tokens[caller]} :
        n # ZERO /\ Le(n, tokens[caller])}

\* C34: in every reachable curve state, a sell(n) with 0 < n <= the caller's
\* token balance never fails for lack of reserve: reserveBalance >=
\* getSellReturn(n) and the curve's funding-asset balance >= reserveBalance,
\* so the computed return can always be paid; such a sell has succeeded or
\* was rejected with ZeroAmount.
C34_ReserveCoversEverySale ==
    /\ Ge(usdc[Curve], reserveBalance)
    /\ \A caller \in Users : \A n \in Sellable(caller) :
          /\ getSellReturn(n) # PANIC
          /\ Ge(reserveBalance, getSellReturn(n))
    /\ (/\ last.call.op = "sell"
        /\ last.call.arg # ZERO
        /\ Le(last.call.arg, pre.tokens[last.call.caller])) =>
          \/ last.ok /\ Ge(pre.reserveBalance, last.out)
          \/ last.err = "ZeroAmount"

C34_Witness ==
    /\ Succeeded(last, "sell")
    /\ Succeeded(prev, "sell")
    /\ totalSupply # ZERO
    /\ \E caller \in Users : \E n \in Sellable(caller) :
          getSellReturn(n) # ZERO /\ Ge(reserveBalance, getSellReturn(n))

\* ------------------------------------------------------------------------
\* The shares add up (under SpecVault)

\* the sum of all holders' share balances
sharesHeld ==
    Add(Add(Add(shares[Alice], shares[Bob]), Add(shares[Owner], shares[Vault])),
        shares[Curve])

\* C35: in every reachable vault state the sum of all holders' share
\* balances equals totalShares: shares are created only by deposit and
\* destroyed only by redeem, and redeem burns only the caller's own shares
\* (a redeem of more shares than the caller holds fails and changes nothing).
C35_SharesAddUp ==
    /\ sharesHeld = totalShares
    /\ Gt(totalShares, pre.totalShares) => Succeeded(last, "deposit")
    /\ Lt(totalShares, pre.totalShares) => Succeeded(last, "redeem")
    /\ shares # pre.shares => Succeeded(last, "deposit") \/ Succeeded(last, "redeem")
    /\ Succeeded(last, "redeem") =>
          /\ Ge(pre.shares[last.call.caller], last.call.arg)
          /\ shares = [pre.shares EXCEPT ![last.call.caller] = Sub(@, last.call.arg)]
          /\ totalShares = Sub(pre.totalShares, last.call.arg)
    /\ (last.call.op = "redeem" /\ Gt(last.call.arg, pre.shares[last.call.caller])) =>
          ~last.ok /\ VaultUnchanged

C35_Witness ==
    /\ last.call.op = "redeem"
    /\ Gt(last.call.arg, pre.shares[last.call.caller])
    /\ last.err = "ERC20InsufficientBalance"
    /\ Succeeded(prev, "redeem")
    /\ totalShares # ZERO
    /\ sharesHeld = totalShares

\* ------------------------------------------------------------------------
\* Nothing is burned for a zero payout (under SpecPayouts)

\* the vault after alice's first deposit of 1000 USDC and the owner's
\* deployFunds of 500 USDC of it; the records of the calls start afresh
InitDeployed ==
    /\ usdc = [a \in Accounts |->
                 IF a = Vault THEN Usdc(500)
                 ELSE IF a = Alice THEN Sub(InitialBalance, Usdc(1000))
                 ELSE IF a = Owner THEN Add(InitialBalance, Usdc(500))
                 ELSE IF a \in Users THEN InitialBalance ELSE ZERO]
    /\ shares = [a \in Accounts |-> IF a = Alice THEN Usdc(1000) ELSE ZERO]
    /\ totalShares = Usdc(1000)
    /\ managedAssets = Usdc(500)
    /\ tokens = [a \in Accounts |-> ZERO]
    /\ totalSupply = ZERO
    /\ reserveBalance = ZERO
    /\ last = Constructed
    /\ prev = last
    /\ prev2 = last
    /\ BotAtRest
    /\ pre = Snapshot
    /\ entered = {}
    /\ pending = Idle
    /\ steps = 0

\* alice's deposits, redeems, buys and sells, and the owner's reports of a loss
NextPayouts ==
    \/ \E assets \in {N(1), Usdc(1000)} : deposit(Alice, assets, Alice)
    \/ \E which \in {"one", "all"} : redeem(Alice, RedeemAmount(Alice, which), Alice)
    \/ \E mag \in {N(1), Usdc(500)} : reportPnL(Owner, TRUE, mag)
    \/ \E usdcAmount \in {N(1), N(12345), Usdc(1000)} : buy(Alice, usdcAmount)
    \/ \E which \in {"one", "half", "all"} : sell(Alice, SellAmount(Alice, which))

SpecPayouts == InitDeployed /\ [][NextPayouts]_vars

\* redeem got as far as computing the assets, and they are 0
RedeemComputedZero ==
    /\ last.call.op = "redeem"
    /\ last.call.arg # ZERO /\ last.call.receiver # Zero
    /\ PreAssets(last.call.arg) = ZERO

\* sell got as far as computing the return, and it is 0
SellComputedZero ==
    /\ last.call.op = "sell"
    /\ last.call.arg # ZERO /\ Le(last.call.arg, pre.tokens[last.call.caller])
    /\ _integralCost(Sub(pre.totalSupply, last.call.arg), pre.totalSupply) = ZERO

\* C36: nothing is ever burned for a zero payout: a vault redeem whose
\* computed assets are 0 and a curve sell whose computed return is 0 are
\* rejected with ZeroAmount and leave the state unchanged.
C36_NoBurnForZeroPayout ==
    /\ RedeemComputedZero => VaultRejectedWith("ZeroAmount") /\ CurveUnchanged
    /\ SellComputedZero => RejectedWith("ZeroAmount") /\ VaultUnchanged
    /\ Succeeded(last, "redeem") => last.out # ZERO
    /\ Succeeded(last, "sell") => last.out # ZERO
    /\ Lt(totalShares, pre.totalShares) =>
          Gt(usdc[last.call.receiver], pre.usdc[last.call.receiver])
    /\ Lt(totalSupply, pre.totalSupply) =>
          Gt(usdc[last.call.caller], pre.usdc[last.call.caller])

C36_Witness ==
    /\ RedeemComputedZero
    /\ VaultRejectedWith("ZeroAmount")
    /\ pre.shares[last.call.caller] # ZERO
    /\ tokens[last.call.caller] # ZERO
    /\ getSellReturn(N(1)) = ZERO

\* ------------------------------------------------------------------------
\* The bot's action history (history.ts)

MAX_SIZE == 20
MaxAdds == 3

\* everything but the bot's worker
chainVars == <<usdc, vaultVars, curveVars, last, prev, prev2, pre, entered,
               pending, steps>>

\* the contracts as deployed, no call made
Deployed ==
    /\ usdc = [a \in Accounts |-> IF a \in Users THEN InitialBalance ELSE ZERO]
    /\ shares = [a \in Accounts |-> ZERO]
    /\ totalShares = ZERO
    /\ managedAssets = ZERO
    /\ tokens = [a \in Accounts |-> ZERO]
    /\ totalSupply = ZERO
    /\ reserveBalance = ZERO
    /\ last = Constructed
    /\ prev = last
    /\ prev2 = last
    /\ pre = Snapshot
    /\ entered = {}
    /\ pending = Idle
    /\ steps = 0

\* the TradeRecord that addRecord makes of record: the cycle is the data's
\* cycleCounter (the timestamp is left out)
Entry(d, record) ==
    [cycle |-> d.cycleCounter, action |-> record.action, result |-> record.result,
     note |-> record.note]

\* addRecord that drops the entry just pushed when the history is full
addRecordKeepingOldest(d, record) ==
    LET pushed == Append(d.records, Entry(d, record))
    IN  [d EXCEPT !.records = IF Len(pushed) > MAX_SIZE
                              THEN SubSeq(pushed, 1, MAX_SIZE) ELSE pushed]

\* data.records.push(entry); if (data.records.length > MAX_SIZE) data.records.shift()
addRecord(d, record) ==
    LET pushed == Append(d.records, Entry(d, record))
    IN  [d EXCEPT !.records = IF Len(pushed) > MAX_SIZE THEN Tail(pushed) ELSE pushed]

\* data.cycleCounter++; the new counter is what nextCycle returns
nextCycle(d) == [d EXCEPT !.cycleCounter = @ + 1]

\* the history that n cycles leave which each waited and recorded it
HistoryAfter(n) ==
    [records |-> [i \in 1..n |-> [cycle |-> i, action |-> "wait",
                                  result |-> "success", note |-> "reasoning"]],
     cycleCounter |-> n]

\* the records that a caller hands to addRecord
Records ==
    {[action |-> "wait", result |-> "success", note |-> "reasoning"],
     [action |-> "buy_rsim", result |-> "failed", note |-> "pre-validation"]}

callAddRecord(record) ==
    /\ calls < MaxAdds
    /\ data' = addRecord(data, record)
    /\ added' = Append(added, Entry(data, record))
    /\ calls' = calls + 1
    /\ UNCHANGED <<chainVars, kv, run, sent>>

callNextCycle ==
    /\ calls < MaxAdds
    /\ data' = nextCycle(data)
    /\ calls' = calls + 1
    /\ UNCHANGED <<chainVars, kv, run, sent, added>>

\* a history of up to MAX_SIZE records, none dropped yet
InitHistory ==
    /\ Deployed
    /\ kv = <<>>
    /\ run = [i \in Invocations |-> NotRunning]
    /\ sent = <<>>
    /\ \E n \in 0..MAX_SIZE : data = HistoryAfter(n)
    /\ added = data.records
    /\ calls = 0

NextHistory ==
    \/ \E record \in Records : callAddRecord(record)
    \/ callNextCycle

SpecHistory == InitHistory /\ [][NextHistory]_vars

\* the last n elements of s, or all of s when it has fewer
LastOf(s, n) == IF Len(s) <= n THEN s ELSE SubSeq(s, Len(s) - n + 1, Len(s))

\* C37: the bot's action history is a bounded FIFO: after any sequence of
\* addRecord calls the history holds at most 20 records, and they are the
\* most recently added ones in insertion order.
C37_HistoryIsBoundedFifo ==
    /\ Len(data.records) <= MAX_SIZE
    /\ data.records = LastOf(added, MAX_SIZE)

C37_Witness ==
    /\ Len(added) > MAX_SIZE + 1
    /\ Len(data.records) = MAX_SIZE
    /\ data.records[MAX_SIZE] = added[Len(added)]
    /\ data.records[1] = added[Len(added) - MAX_SIZE + 1]
    /\ data.records[MAX_SIZE].cycle > data.records[MAX_SIZE - 1].cycle

\* ------------------------------------------------------------------------
\* The bot's cycle (index.ts, actions.ts)

USDC_DECIMALS == 6
RSIM_DECIMALS == 6

Digits == <<"0", "1", "2", "3", "4", "5", "6", "7", "8", "9">>
IsDigit(c) == \E k \in 1..10 : Digits[k] = c
DigitValue(c) == (CHOOSE k \in 1..10 : Digits[k] = c) - 1

\* the number that the digits of text write, 0 for no digits
RECURSIVE ValueFrom(_, _, _)
ValueFrom(text, k, acc) ==
    IF k > Len(text) THEN acc ELSE ValueFrom(text, k + 1, acc * 10 + DigitValue(text[k]))

Pow10(n) == IF n = 0 THEN 1 ELSE ValueFrom([k \in 1..n |-> "0"], 1, 1)

\* viem's parseUnits(value, decimals): an optional "-", digits, an optional
\* "." and digits, or it throws; the fraction is padded to the decimals, and
\* rounded half up when it is longer
parseUnits(text, decimals) ==
    LET negative == Len(text) > 0 /\ text[1] = "-"
        body == IF negative THEN Tail(text) ELSE text
        dots == {k \in 1..Len(body) : body[k] = "."}
        wellFormed == /\ Cardinality(dots) <= 1
                      /\ \A k \in 1..Len(body) : IsDigit(body[k]) \/ body[k] = "."
    IN  IF ~wellFormed THEN [ok |-> FALSE, negative |-> FALSE, magnitude |-> 0]
        ELSE LET dot == IF dots = {} THEN Len(body) + 1 ELSE CHOOSE k \in dots : TRUE
                 integer == SubSeq(body, 1, dot - 1)
                 fraction == SubSeq(body, dot + 1, Len(body))
                 kept == [k \in 1..decimals |->
                             IF k <= Len(fraction) THEN fraction[k] ELSE "0"]
                 up == IF Len(fraction) > decimals
                          /\ DigitValue(fraction[decimals + 1]) >= 5 THEN 1 ELSE 0
                 magnitude == ValueFrom(integer, 1, 0) * Pow10(decimals)
                              + ValueFrom(kept, 1, 0) + up
             IN  [ok |-> TRUE, negative |-> negative /\ magnitude # 0,
                  magnitude |-> magnitude]

\* validateAction returned null
Valid == "null"

\* validateAction without the check of return_funds against the wallet
validateActionTrustingReturn(action, state) ==
    IF action.action = "wait" THEN Valid
    ELSE IF ~action.amount.defined \/ action.amount.text = <<>>
    THEN "requires an amount"
    ELSE LET decimals == IF action.action = "sell_rsim" THEN RSIM_DECIMALS
                         ELSE USDC_DECIMALS
             parsed == parseUnits(action.amount.text, decimals)
         IN  IF ~parsed.ok THEN "Invalid amount"
             ELSE IF parsed.negative \/ parsed.magnitude = 0
             THEN "Amount must be positive"
             ELSE IF action.action = "deploy_funds"
                     /\ state.vaultAvailableLiquidity < parsed.magnitude
             THEN "Cannot deploy"
             ELSE IF action.action = "buy_rsim" /\ state.mmUsdcBalance < parsed.magnitude
             THEN "Cannot buy"
             ELSE IF action.action = "sell_rsim" /\ state.mmRsimBalance = 0
             THEN "Cannot sell"
             ELSE Valid

\* validateAction: the reason the action is rejected for, or null
validateAction(action, state) ==
    IF action.action = "wait" THEN Valid
    ELSE IF ~action.amount.defined \/ action.amount.text = <<>>
    THEN "requires an amount"
    ELSE LET decimals == IF action.action = "sell_rsim" THEN RSIM_DECIMALS
                         ELSE USDC_DECIMALS
             parsed == parseUnits(action.amount.text, decimals)
         IN  IF ~parsed.ok THEN "Invalid amount"
             ELSE IF parsed.negative \/ parsed.magnitude = 0
             THEN "Amount must be positive"
             ELSE IF action.action = "deploy_funds"
                     /\ state.vaultAvailableLiquidity < parsed.magnitude
             THEN "Cannot deploy"
             ELSE IF action.action = "buy_rsim" /\ state.mmUsdcBalance < parsed.magnitude
             THEN "Cannot buy"
             ELSE IF action.action = "sell_rsim" /\ state.mmRsimBalance = 0
             THEN "Cannot sell"
             ELSE IF action.action = "return_funds"
                     /\ state.mmUsdcBalance < parsed.magnitude
             THEN "Cannot return"
             ELSE Valid

\* what is stored under KV_KEY, or the empty history
loadHistory == IF kv = <<>> THEN NoHistory ELSE kv[1]

\* const history = await loadHistory(env.KV); const cycle = nextCycle(history)
Load(i) ==
    /\ run[i].pc = "idle"
    /\ run' = [run EXCEPT ![i].pc = "loaded", ![i].history = nextCycle(loadHistory)]
    /\ UNCHANGED <<chainVars, kv, sent, data, added, calls>>

\* const state = await readMarketState(publicClient, mmAccount.address)
Read(i, state) ==
    /\ run[i].pc = "loaded"
    /\ run' = [run EXCEPT ![i].pc = "read", ![i].state = state]
    /\ UNCHANGED <<chainVars, kv, sent, data, added, calls>>

\* const action = await decideAction(env, state, history)
Decide(i, action) ==
    /\ run[i].pc = "read"
    /\ run' = [run EXCEPT ![i].pc = "decided", ![i].action = action]
    /\ UNCHANGED <<chainVars, kv, sent, data, added, calls>>

\* readMarketState or decideAction throws: the outer catch logs it, and the
\* cycle goes on to save the history without a record
Abort(i) ==
    /\ run[i].pc \in {"loaded", "read"}
    /\ run' = [run EXCEPT ![i].pc = "acted"]
    /\ UNCHANGED <<chainVars, kv, sent, data, added, calls>>

\* what executeAction does with a validated action: the transactions it
\* submits, and whether it returns or throws. The actions other than wait
\* submit one transaction, sell_rsim of no more than the balance it reads
\* and not at all when that is 0; the submission can throw before the
\* transaction is sent, and the wait for the receipt after it was.
Executions(i, action, state) ==
    LET decimals == IF action.action = "sell_rsim" THEN RSIM_DECIMALS
                    ELSE USDC_DECIMALS
        parsed == parseUnits(action.amount.text, decimals).magnitude
        known == {"deploy_funds", "buy_rsim", "sell_rsim", "return_funds", "report_pnl"}
        amounts == IF action.action = "sell_rsim"
                   THEN {IF parsed > b THEN b ELSE parsed : b \in {0, state.mmRsimBalance}}
                   ELSE {parsed}
    IN  IF action.action \notin known
        THEN {[txs |-> <<>>, result |-> "success", note |-> "reasoning"]}
        ELSE UNION {IF amount = 0
                    THEN {[txs |-> <<>>, result |-> "failed", note |-> "error"]}
                    ELSE LET tx == [by |-> i, action |-> action.action, amount |-> amount]
                         IN  {[txs |-> <<tx>>, result |-> "success", note |-> "reasoning"],
                              [txs |-> <<tx>>, result |-> "failed", note |-> "error"],
                              [txs |-> <<>>, result |-> "failed", note |-> "error"]}
                    : amount \in amounts}

\* the validation, and what follows it: the record of a blocked action, or
\* executeAction and the record of its outcome
Act(i) ==
    /\ run[i].pc = "decided"
    /\ LET action == run[i].action
           invalid == validateAction(action, run[i].state)
       IN  IF invalid # Valid
           THEN /\ run' = [run EXCEPT
                     ![i].pc = "acted",
                     ![i].history = addRecord(@, [action |-> action.action,
                                                  result |-> "failed",
                                                  note |-> "pre-validation"])]
                /\ sent' = sent
           ELSE \E e \in Executions(i, action, run[i].state) :
                /\ run' = [run EXCEPT
                     ![i].pc = "acted",
                     ![i].history = addRecord(@, [action |-> action.action,
                                                  result |-> e.result,
                                                  note |-> e.note])]
                /\ sent' = sent \o e.txs
    /\ UNCHANGED <<chainVars, kv, data, added, calls>>

\* await saveHistory(env.KV, history)
saveHistory(i) ==
    /\ run[i].pc = "acted"
    /\ kv' = <<run[i].history>>
    /\ run' = [run EXCEPT ![i].pc = "done"]
    /\ UNCHANGED <<chainVars, sent, data, added, calls>>

\* what readMarketState finds: the vault's available liquidity and the
\* wallet's USDC and RSIM balances, in their smallest units
MarketStates ==
    {[vaultAvailableLiquidity |-> 0, mmUsdcBalance |-> 0, mmRsimBalance |-> 5000000],
     [vaultAvailableLiquidity |-> 100000000, mmUsdcBalance |-> 100000000,
      mmRsimBalance |-> 0],
     [vaultAvailableLiquidity |-> 150000000, mmUsdcBalance |-> 75000000,
      mmRsimBalance |-> 5000000]}

\* the amounts the agent names: none, "", "abc", "0", "-5", "0.0000004",
\* "75" and "200"
AmountTexts ==
    {<<>>, <<"a", "b", "c">>, <<"0">>, <<"-", "5">>,
     <<"0", ".", "0", "0", "0", "0", "0", "0", "4">>, <<"7", "5">>, <<"2", "0", "0">>}
Amounts == {NoAmount} \cup {[defined |-> TRUE, text |-> t] : t \in AmountTexts}

\* the actions decideAction can return: the six it offers, and whatever
\* else its fallback parses out of the model's text
ActionNames ==
    {"deploy_funds", "buy_rsim", "sell_rsim", "return_funds", "report_pnl", "wait",
     "swap"}
AgentActions == {[action |-> a, amount |-> m] : a \in ActionNames, m \in Amounts}

\* the histories found stored when a cycle begins
StoredHistories == {<<>>, <<HistoryAfter(1)>>, <<HistoryAfter(MAX_SIZE)>>}

\* data keeps the history as it was stored before the cycles began
InitBot ==
    /\ Deployed
    /\ kv \in StoredHistories
    /\ run = [i \in Invocations |-> NotRunning]
    /\ sent = <<>>
    /\ data = loadHistory
    /\ added = <<>>
    /\ calls = 0

\* one cycle, run by the scheduled trigger
NextCycle ==
    \/ Load("scheduled")
    \/ \E state \in MarketStates : Read("scheduled", state)
    \/ \E action \in AgentActions : Decide("scheduled", action)
    \/ Abort("scheduled")
    \/ Act("scheduled")
    \/ saveHistory("scheduled")

SpecCycle == InitBot /\ [][NextCycle]_vars

\* C38's cases, in the claim's words: the action needs an amount, and it is
\* missing, unparsable or not positive, or more than what the action can use
FailsPreFlight(action, state) ==
    /\ action.action # "wait"
    /\ \/ ~action.amount.defined
       \/ action.amount.text = <<>>
       \/ LET parsed == parseUnits(action.amount.text,
                                   IF action.action = "sell_rsim"
                                   THEN RSIM_DECIMALS ELSE USDC_DECIMALS)
          IN  \/ ~parsed.ok
              \/ parsed.negative \/ parsed.magnitude = 0
              \/ action.action = "deploy_funds"
                    /\ parsed.magnitude > state.vaultAvailableLiquidity
              \/ action.action \in {"buy_rsim", "return_funds"}
                    /\ parsed.magnitude > state.mmUsdcBalance
              \/ action.action = "sell_rsim" /\ state.mmRsimBalance = 0

\* the record that the cycle of i added
CycleRecord(i) == run[i].history.records[Len(run[i].history.records)]

\* C38: in a bot cycle, an action that fails pre-flight validation (missing,
\* unparsable or non-positive amount; deploy_funds above vault available
\* liquidity; buy_rsim or return_funds above the wallet's USDC balance;
\* sell_rsim with a zero RSIM balance) is never submitted as a transaction
\* and is recorded in the history as failed, also in the history saved.
C38_BlockedActionIsNotSent ==
    \A i \in Invocations :
       (/\ run[i].pc \in {"acted", "done"}
        /\ FailsPreFlight(run[i].action, run[i].state)) =>
          /\ \A k \in 1..Len(sent) : sent[k].by # i
          /\ Len(run[i].history.records) > 0
          /\ CycleRecord(i).action = run[i].action.action
          /\ CycleRecord(i).result = "failed"
          /\ CycleRecord(i).cycle = data.cycleCounter + 1
          /\ run[i].pc = "done" => kv = <<run[i].history>>

C38_Witness ==
    /\ run["scheduled"].pc = "done"
    /\ run["scheduled"].action.action = "return_funds"
    /\ run["scheduled"].action.amount.text = <<"2", "0", "0">>
    /\ run["scheduled"].state.mmUsdcBalance = 100000000
    /\ sent = <<>>
    /\ Len(kv[1].records) = MAX_SIZE
    /\ kv[1].records[MAX_SIZE].result = "failed"

\* ------------------------------------------------------------------------
\* Two cycles at once (under SpecOverlap)

\* what the agent decides in the two cycles: to wait, to buy with "75", or
\* to return "200"
FewActions ==
    {[action |-> "wait", amount |-> NoAmount],
     [action |-> "buy_rsim", amount |-> [defined |-> TRUE, text |-> <<"7", "5">>]],
     [action |-> "return_funds",
      amount |-> [defined |-> TRUE, text |-> <<"2", "0", "0">>]]}

\* the scheduled trigger and the HTTP route each run one cycle; the steps of
\* the two, which are the stretches between their awaits, interleave freely
NextOverlap ==
    \E i \in Invocations :
       \/ Load(i)
       \/ \E state \in MarketStates : Read(i, state)
       \/ \E action \in FewActions : Decide(i, action)
       \/ Abort(i)
       \/ Act(i)
       \/ saveHistory(i)

SpecOverlap == InitBot /\ [][NextOverlap]_vars

\* both cycles are over
BothDone == \A i \in Invocations : run[i].pc = "done"

\* the cycles overlapped: neither loaded what the other saved, so both
\* counted the same cycle
Overlapped ==
    run["scheduled"].history.cycleCounter = run["trigger"].history.cycleCounter

\* the cycle of i added a record
HasRecorded(i) ==
    /\ Len(run[i].history.records) > 0
    /\ CycleRecord(i).cycle = run[i].history.cycleCounter

\* C39, as stated: bot cycles do not lose history: when two runCycle
\* invocations (the scheduled trigger and the /trigger or /__scheduled HTTP
\* route) overlap, after both complete the persisted history contains both
\* cycles' records and cycleCounter has advanced by 2.
C39_OverlappingCyclesKeepHistory ==
    (BothDone /\ Overlapped) =>
       /\ kv # <<>>
       /\ kv[1].cycleCounter = data.cycleCounter + 2
       /\ \A i \in Invocations :
             HasRecorded(i) =>
                \E k \in 1..Len(kv[1].records) : kv[1].records[k] = CycleRecord(i)

====
